---- MODULE Spec2Model ----
(***************************************************************************)
(* Model of the Saxophone streaming XML tokenizer (src/src/Saxophone.ts).  *)
(*                                                                         *)
(* Text is a sequence of one-character strings.  Indices handed to the     *)
(* string helpers are the 0-based indices of the TypeScript source; the    *)
(* helpers translate them to the 1-based sequences of TLA+.                *)
(*                                                                         *)
(* One session is one behaviour: a document is chosen, it is written to    *)
(* the stream in chunks of any size (Write = Writable.write -> _write),    *)
(* and the stream is ended (Final = Writable.end -> _final).  The source   *)
(* file holds two variants of the class which share _parseChunk and differ *)
(* in _write, _final and parse; the variant is chosen per session.         *)
(***************************************************************************)
EXTENDS Integers, Sequences, FiniteSets, TLC

VARIABLES
    variant,    \* 1: the class of lines 17-329, 2: the class of lines 345-673
    doc,        \* the text the caller is going to write, as characters
    pos,        \* how many characters of doc have been written so far
    waiting,    \* this._waiting: the pending token, or Null
    tagStack,   \* this._tagStack: names of the open tags, oldest first
    log,        \* the nodes emitted, the errors called back, 'finish' emits
                \* and the callbacks of _final, in the order they happened
    phase,      \* "open" until end() has run _final, then "ended"
    last,       \* the call that produced this state: which one, the position
                \* it started at, the length the log had before it, and the
                \* pending token and tag stack it found
    scan        \* the _parseChunk call in progress, where the model follows
                \* its loop iteration by iteration: the handler that made
                \* the call, input, chunkPos, whether the loop has been left
                \* and the exception that left it; NoScan between calls

vars == <<variant, doc, pos, waiting, tagStack, log, phase, last, scan>>

-----------------------------------------------------------------------------
(* Bounds of the model.                                                    *)

\* Largest number of pieces a document is put together from.
MaxPieces == 3

\* Largest number of characters handed to one write().
MaxChunk == 2

\* Largest number of pieces of a document whose scan is followed one
\* iteration at a time.
MaxScanPieces == 2

-----------------------------------------------------------------------------
(* JavaScript string primitives, on sequences of characters.               *)

\* typeof x === 'undefined' for a character read past the end of a string.
Undefined == "undefined"

Min(a, b) == IF a < b THEN a ELSE b

Max(a, b) == IF a > b THEN a ELSE b

\* input[i]
At(s, i) == IF i >= 0 /\ i < Len(s) THEN s[i + 1] ELSE Undefined

\* input.slice(a, b)
Slice(s, a, b) ==
    LET lo == Min(Max(a, 0), Len(s))
        hi == Min(Max(b, 0), Len(s))
    IN  IF lo >= hi THEN << >> ELSE SubSeq(s, lo + 1, hi)

\* input.slice(a)
SliceFrom(s, a) == Slice(s, a, Len(s))

\* input.indexOf(pat, from): the first match at or after from, or -1.
\* An empty pattern matches at min(from, length).
IndexOf(s, pat, from) ==
    LET start == Min(Max(from, 0), Len(s))
        hits  == { i \in start .. (Len(s) - Len(pat)) :
                     SubSeq(s, i + 1, i + Len(pat)) = pat }
    IN  IF hits = {} THEN -1
        ELSE CHOOSE i \in hits : \A j \in hits : i <= j

\* The characters the regular expression \s matches.
Whitespace == {" ", "\n", "\t", "\r"}

\* s.search(/\s/)
SearchWhitespace(s) ==
    LET hits == { i \in 0 .. (Len(s) - 1) : s[i + 1] \in Whitespace }
    IN  IF hits = {} THEN -1
        ELSE CHOOSE i \in hits : \A j \in hits : i <= j

\* array.join(','), for an array of strings
RECURSIVE Join(_)
Join(names) ==
    IF names = << >> THEN << >>
    ELSE IF Len(names) = 1 THEN names[1]
    ELSE names[1] \o <<",">> \o Join(Tail(names))

\* The text a template literal `${x}` renders for the undefined value.
UndefinedText == <<"u", "n", "d", "e", "f", "i", "n", "e", "d">>

-----------------------------------------------------------------------------
(* Nodes, errors and the entries of the log.                               *)

TextNode(contents) == [type |-> "text", contents |-> contents]

CDATANode(contents) == [type |-> "cdata", contents |-> contents]

CommentNode(contents) == [type |-> "comment", contents |-> contents]

ProcessingInstructionNode(contents) ==
    [type |-> "processingInstruction", contents |-> contents]

TagOpenNode(name, attrs, isSelfClosing) ==
    [type |-> "tagOpen", name |-> name, attrs |-> attrs,
     isSelfClosing |-> isSelfClosing]

TagCloseNode(name) == [type |-> "tagClose", name |-> name]

NodeTypes ==
    {"text", "cdata", "comment", "processingInstruction", "tagOpen", "tagClose"}

\* new Error(head + tail): the fixed wording and the text appended to it.
Error(head, tail) == [head |-> head, tail |-> tail]

\* callback() without an error
NoError == Error("", << >>)

\* callback(error) as the stream sees it
Callback(of, error) == [type |-> "callback", of |-> of, error |-> error]

\* this.emit('finish')
FinishEvent == [type |-> "finish"]

\* this._waiting === null
Null == [token |-> "null", data |-> << >>]

-----------------------------------------------------------------------------
(* _parseChunk.  The parser state st is the part of the object a call      *)
(* changes: emitted (what the call has emitted so far), tagStack, waiting, *)
(* and thrown (the exception that ended the call, or NoError).  Every      *)
(* construct handler returns the new state, the new cursor chunkPos, and   *)
(* whether the while loop is left (break or throw).                        *)

\* Emit as it would be if a node were delivered ahead of the nodes the
\* call has emitted already.
EmitInFront(st, node) == [st EXCEPT !.emitted = <<node>> \o @]

\* this.emit(type, node)
Emit(st, node) == [st EXCEPT !.emitted = Append(@, node)]

\* continue: go round the loop again with the cursor at chunkPos
Continue(st, chunkPos) == [st |-> st, pos |-> chunkPos, stop |-> FALSE]

\* this._wait(token, data); break
Wait(st, token, data) ==
    [st   |-> [st EXCEPT !.waiting = [token |-> token, data |-> data]],
     pos  |-> 0,
     stop |-> TRUE]

\* throw new Error(...)
Throw(st, error) ==
    [st |-> [st EXCEPT !.thrown = error], pos |-> 0, stop |-> TRUE]

\* this._unwait(): the pending data, or '' when nothing is pending
Unwait(w) == IF w = Null THEN << >> ELSE w.data

\* The literal the CDATA opener is compared against.
CdataLiteral == <<"C", "D", "A", "T", "A", "[">>

\* IsCdataOpener as it would be if it took nothing but the whole literal
\* for an opener, and so gave up on an opener that has arrived in part.
IsCdataOpenerExact(input, chunkPos) ==
    Slice(input, chunkPos + 1, chunkPos + 7) = CdataLiteral

\* 'CDATA['.indexOf(input.slice(chunkPos + 1, chunkPos + 7)) > -1,
\* chunkPos being the index of the '[' after '<!'
IsCdataOpener(input, chunkPos) ==
    IndexOf(CdataLiteral, Slice(input, chunkPos + 1, chunkPos + 7), 0) > -1

\* ParseCdata as it would be if an unfinished section were kept pending
\* from its '[' on, without the '<!' before it.
ParseCdataShortWait(input, chunkPos0, st) ==
    LET chunkPos   == chunkPos0 + 7
        cdataClose == IndexOf(input, <<"]", "]", ">">>, chunkPos)
    IN  IF cdataClose = -1
        THEN Wait(st, "cdata", SliceFrom(input, chunkPos - 7))
        ELSE Continue(Emit(st, CDATANode(Slice(input, chunkPos, cdataClose))),
                      cdataClose + 3)

\* The CDATA branch; chunkPos is the index of the '[' after '<!'.
ParseCdata(input, chunkPos0, st) ==
    LET chunkPos   == chunkPos0 + 7
        cdataClose == IndexOf(input, <<"]", "]", ">">>, chunkPos)
    IN  IF cdataClose = -1
        THEN Wait(st, "cdata", SliceFrom(input, chunkPos - 9))
        ELSE Continue(Emit(st, CDATANode(Slice(input, chunkPos, cdataClose))),
                      cdataClose + 3)

\* The comment test; chunkPos is the index of the character after '<!'.
IsCommentOpener(input, chunkPos) ==
    /\ At(input, chunkPos) = "-"
    /\ \/ At(input, chunkPos + 1) = "-"
       \/ At(input, chunkPos + 1) = Undefined

\* The comment branch; chunkPos is the index of the first '-' after '<!'.
ParseComment(input, chunkPos0, st) ==
    LET chunkPos     == chunkPos0 + 2
        commentClose == IndexOf(input, <<"-", "-">>, chunkPos)
    IN  IF commentClose = -1
        THEN Wait(st, "comment", SliceFrom(input, chunkPos - 4))
        ELSE IF At(input, commentClose + 2) # ">"
        THEN Throw(st, Error("Unexpected -- inside comment", << >>))
        ELSE Continue(
                 Emit(st, CommentNode(Slice(input, chunkPos, commentClose))),
                 commentClose + 3)

\* ParseMarkupDeclaration as it would be if a '<!' at the end of the input
\* were kept pending without its '<'.
ParseMarkupDeclarationShortWait(input, chunkPos0, st) ==
    LET chunkPos     == chunkPos0 + 1
        nextNextChar == At(input, chunkPos)
    IN  IF nextNextChar = Undefined
        THEN Wait(st, "markupDeclaration", SliceFrom(input, chunkPos - 1))
        ELSE IF nextNextChar = "[" /\ IsCdataOpener(input, chunkPos)
        THEN ParseCdata(input, chunkPos, st)
        ELSE IF IsCommentOpener(input, chunkPos)
        THEN ParseComment(input, chunkPos, st)
        ELSE Throw(st, Error("Unrecognized sequence: <!", <<nextNextChar>>))

\* The branch for '<!'; chunkPos0 is the index of the '!'.
ParseMarkupDeclaration(input, chunkPos0, st) ==
    LET chunkPos     == chunkPos0 + 1
        nextNextChar == At(input, chunkPos)
    IN  IF nextNextChar = Undefined
        THEN Wait(st, "markupDeclaration", SliceFrom(input, chunkPos - 2))
        ELSE IF nextNextChar = "[" /\ IsCdataOpener(input, chunkPos)
        THEN ParseCdata(input, chunkPos, st)
        ELSE IF IsCommentOpener(input, chunkPos)
        THEN ParseComment(input, chunkPos, st)
        ELSE Throw(st, Error("Unrecognized sequence: <!", <<nextNextChar>>))

\* ParseProcessingInstruction as it would be if the instruction ended at
\* the first '>', as a tag does.
ParseProcessingInstructionAsTag(input, chunkPos0, st) ==
    LET chunkPos == chunkPos0 + 1
        piClose  == IndexOf(input, <<">">>, chunkPos)
    IN  IF piClose = -1
        THEN Wait(st, "processingInstruction", SliceFrom(input, chunkPos - 2))
        ELSE Continue(
                 Emit(st, ProcessingInstructionNode(
                              Slice(input, chunkPos, piClose - 1))),
                 piClose + 1)

\* ParseProcessingInstruction as it would be if it looked for the '?' of
\* the terminator and then at the character after it, as the comment
\* branch does with '--'.
ParseProcessingInstructionChecksNext(input, chunkPos0, st) ==
    LET chunkPos == chunkPos0 + 1
        piClose  == IndexOf(input, <<"?">>, chunkPos)
    IN  IF piClose = -1
        THEN Wait(st, "processingInstruction", SliceFrom(input, chunkPos - 2))
        ELSE IF At(input, piClose + 1) # ">"
        THEN Throw(st, Error("Unexpected ? inside processing instruction",
                             << >>))
        ELSE Continue(
                 Emit(st, ProcessingInstructionNode(
                              Slice(input, chunkPos, piClose))),
                 piClose + 2)

\* The branch for '<?'; chunkPos0 is the index of the '?'.
ParseProcessingInstruction(input, chunkPos0, st) ==
    LET chunkPos == chunkPos0 + 1
        piClose  == IndexOf(input, <<"?", ">">>, chunkPos)
    IN  IF piClose = -1
        THEN Wait(st, "processingInstruction", SliceFrom(input, chunkPos - 2))
        ELSE Continue(
                 Emit(st, ProcessingInstructionNode(
                              Slice(input, chunkPos, piClose))),
                 piClose + 2)

\* ParseClosingTag as it would be if a matching closing tag left the name
\* it closes on the stack.
ParseClosingTagNoPop(input, chunkPos, tagClose, st) ==
    LET tagName  == Slice(input, chunkPos + 1, tagClose)
        depth    == Len(st.tagStack)
        popped   == depth > 0
        stackedTagName == IF popped THEN st.tagStack[depth] ELSE << >>
        afterPop == IF popped THEN SubSeq(st.tagStack, 1, depth - 1) ELSE << >>
    IN  IF ~popped \/ stackedTagName # tagName
        THEN Throw([st EXCEPT !.tagStack = << >>],
                   Error("Unclosed tag: ",
                         IF popped THEN stackedTagName ELSE UndefinedText))
        ELSE Continue(Emit([st EXCEPT !.tagStack = st.tagStack],
                           TagCloseNode(tagName)),
                      tagClose + 1)

\* ParseClosingTag as it would be if a mismatch only popped the top of the
\* stack and kept the rest.
ParseClosingTagKeepsRest(input, chunkPos, tagClose, st) ==
    LET tagName  == Slice(input, chunkPos + 1, tagClose)
        depth    == Len(st.tagStack)
        popped   == depth > 0
        stackedTagName == IF popped THEN st.tagStack[depth] ELSE << >>
        afterPop == IF popped THEN SubSeq(st.tagStack, 1, depth - 1) ELSE << >>
    IN  IF ~popped \/ stackedTagName # tagName
        THEN Throw([st EXCEPT !.tagStack = afterPop],
                   Error("Unclosed tag: ",
                         IF popped THEN stackedTagName ELSE UndefinedText))
        ELSE Continue(Emit([st EXCEPT !.tagStack = afterPop],
                           TagCloseNode(tagName)),
                      tagClose + 1)

\* ParseClosingTag as it would be if the error named the tag found in the
\* text instead of the one popped from the stack.
ParseClosingTagReportsFound(input, chunkPos, tagClose, st) ==
    LET tagName  == Slice(input, chunkPos + 1, tagClose)
        depth    == Len(st.tagStack)
        popped   == depth > 0
        stackedTagName == IF popped THEN st.tagStack[depth] ELSE << >>
        afterPop == IF popped THEN SubSeq(st.tagStack, 1, depth - 1) ELSE << >>
    IN  IF ~popped \/ stackedTagName # tagName
        THEN Throw([st EXCEPT !.tagStack = << >>],
                   Error("Unclosed tag: ", tagName))
        ELSE Continue(Emit([st EXCEPT !.tagStack = afterPop],
                           TagCloseNode(tagName)),
                      tagClose + 1)

\* ParseClosingTag as it would be if a closing tag met on an empty stack
\* were let through, with its TagClose node.
ParseClosingTagLenient(input, chunkPos, tagClose, st) ==
    LET tagName  == Slice(input, chunkPos + 1, tagClose)
        depth    == Len(st.tagStack)
        popped   == depth > 0
        stackedTagName == IF popped THEN st.tagStack[depth] ELSE << >>
        afterPop == IF popped THEN SubSeq(st.tagStack, 1, depth - 1) ELSE << >>
    IN  IF popped /\ stackedTagName # tagName
        THEN Throw([st EXCEPT !.tagStack = << >>],
                   Error("Unclosed tag: ", stackedTagName))
        ELSE Continue(Emit([st EXCEPT !.tagStack = afterPop],
                           TagCloseNode(tagName)),
                      tagClose + 1)

\* The closing tag '</name>'; chunkPos is the index of the '/', tagClose
\* that of the '>'.
ParseClosingTag(input, chunkPos, tagClose, st) ==
    LET tagName  == Slice(input, chunkPos + 1, tagClose)
        depth    == Len(st.tagStack)
        \* this._tagStack.pop(): undefined on an empty stack
        popped   == depth > 0
        stackedTagName == IF popped THEN st.tagStack[depth] ELSE << >>
        afterPop == IF popped THEN SubSeq(st.tagStack, 1, depth - 1) ELSE << >>
    IN  IF ~popped \/ stackedTagName # tagName
        THEN Throw([st EXCEPT !.tagStack = << >>],
                   Error("Unclosed tag: ",
                         IF popped THEN stackedTagName ELSE UndefinedText))
        ELSE Continue(Emit([st EXCEPT !.tagStack = afterPop],
                           TagCloseNode(tagName)),
                      tagClose + 1)

\* HandleTagOpening as it would be if it pushed self-closing tags too.
HandleTagOpeningAlwaysPush(st, node) ==
    Emit([st EXCEPT !.tagStack = Append(@, node.name)], node)

\* this._handleTagOpening(node)
HandleTagOpening(st, node) ==
    Emit(IF ~node.isSelfClosing
         THEN [st EXCEPT !.tagStack = Append(@, node.name)]
         ELSE st,
         node)

\* ParseOpeningTag as it would be if the attributes were taken from the
\* character after the whitespace that ends the name.
ParseOpeningTagTrimmed(input, chunkPos, tagClose, st) ==
    LET whitespace    == SearchWhitespace(SliceFrom(input, chunkPos))
        isSelfClosing == At(input, tagClose - 1) = "/"
        realTagClose  == IF isSelfClosing THEN tagClose - 1 ELSE tagClose
    IN  IF whitespace = -1 \/ whitespace >= tagClose - chunkPos
        THEN Continue(
                 HandleTagOpening(st,
                     TagOpenNode(Slice(input, chunkPos, realTagClose),
                                 << >>, isSelfClosing)),
                 tagClose + 1)
        ELSE IF whitespace = 0
        THEN Throw(st, Error("Tag names may not start with whitespace", << >>))
        ELSE Continue(
                 HandleTagOpening(st,
                     TagOpenNode(
                         Slice(input, chunkPos, chunkPos + whitespace),
                         Slice(input, Min(chunkPos + whitespace + 1, realTagClose), realTagClose),
                         isSelfClosing)),
                 tagClose + 1)

\* ParseOpeningTag as it would be if a tag were self-closing only when
\* the '/' follows the name directly, no attributes in between.
ParseOpeningTagSlashAfterName(input, chunkPos, tagClose, st) ==
    LET whitespace    == SearchWhitespace(SliceFrom(input, chunkPos))
        isSelfClosing == /\ At(input, tagClose - 1) = "/"
                         /\ (whitespace = -1 \/ whitespace >= tagClose - chunkPos)
        realTagClose  == IF isSelfClosing THEN tagClose - 1 ELSE tagClose
    IN  IF whitespace = -1 \/ whitespace >= tagClose - chunkPos
        THEN Continue(
                 HandleTagOpening(st,
                     TagOpenNode(Slice(input, chunkPos, realTagClose),
                                 << >>, isSelfClosing)),
                 tagClose + 1)
        ELSE IF whitespace = 0
        THEN Throw(st, Error("Tag names may not start with whitespace", << >>))
        ELSE Continue(
                 HandleTagOpening(st,
                     TagOpenNode(
                         Slice(input, chunkPos, chunkPos + whitespace),
                         Slice(input, chunkPos + whitespace, realTagClose),
                         isSelfClosing)),
                 tagClose + 1)

\* ParseOpeningTag as it would be if whitespace right after '<' gave a
\* tag with an empty name.
ParseOpeningTagEmptyName(input, chunkPos, tagClose, st) ==
    LET whitespace    == SearchWhitespace(SliceFrom(input, chunkPos))
        isSelfClosing == At(input, tagClose - 1) = "/"
        realTagClose  == IF isSelfClosing THEN tagClose - 1 ELSE tagClose
    IN  IF whitespace = -1 \/ whitespace >= tagClose - chunkPos
        THEN Continue(
                 HandleTagOpening(st,
                     TagOpenNode(Slice(input, chunkPos, realTagClose),
                                 << >>, isSelfClosing)),
                 tagClose + 1)
        ELSE IF FALSE
        THEN Throw(st, Error("Tag names may not start with whitespace", << >>))
        ELSE Continue(
                 HandleTagOpening(st,
                     TagOpenNode(
                         Slice(input, chunkPos, chunkPos + whitespace),
                         Slice(input, chunkPos + whitespace, realTagClose),
                         isSelfClosing)),
                 tagClose + 1)

\* The opening tag '<name attrs>'; chunkPos is the index after '<',
\* tagClose that of the '>'.
ParseOpeningTag(input, chunkPos, tagClose, st) ==
    LET isSelfClosing == At(input, tagClose - 1) = "/"
        realTagClose  == IF isSelfClosing THEN tagClose - 1 ELSE tagClose
        whitespace    == SearchWhitespace(SliceFrom(input, chunkPos))
    IN  IF whitespace = -1 \/ whitespace >= tagClose - chunkPos
        THEN Continue(
                 HandleTagOpening(st,
                     TagOpenNode(Slice(input, chunkPos, realTagClose),
                                 << >>, isSelfClosing)),
                 tagClose + 1)
        ELSE IF whitespace = 0
        THEN Throw(st, Error("Tag names may not start with whitespace", << >>))
        ELSE Continue(
                 HandleTagOpening(st,
                     TagOpenNode(
                         Slice(input, chunkPos, chunkPos + whitespace),
                         Slice(input, chunkPos + whitespace, realTagClose),
                         isSelfClosing)),
                 tagClose + 1)

\* ParseTag as it would be if the cursor were left on the '<' of a tag
\* that has been found complete.
ParseTagRescans(input, chunkPos, st) ==
    LET tagClose == IndexOf(input, <<">">>, chunkPos)
    IN  IF tagClose = -1
        THEN Wait(st, "tagOpen", SliceFrom(input, chunkPos - 1))
        ELSE Continue(st, chunkPos - 1)

\* ParseTag as it would be if an unfinished tag were kept as pending text.
ParseTagAsText(input, chunkPos, st) ==
    LET tagClose == IndexOf(input, <<">">>, chunkPos)
    IN  IF tagClose = -1
        THEN Wait(st, "text", SliceFrom(input, chunkPos - 1))
        ELSE IF At(input, chunkPos) = "/"
        THEN ParseClosingTag(input, chunkPos, tagClose, st)
        ELSE ParseOpeningTag(input, chunkPos, tagClose, st)

\* ParseTag as it would be if a tag whose '>' is the last character read
\* so far were kept pending until more text arrives.
ParseTagHoldsBack(input, chunkPos, st) ==
    LET tagClose == IndexOf(input, <<">">>, chunkPos)
    IN  IF tagClose = -1 \/ tagClose = Len(input) - 1
        THEN Wait(st, "tagOpen", SliceFrom(input, chunkPos - 1))
        ELSE IF At(input, chunkPos) = "/"
        THEN ParseClosingTag(input, chunkPos, tagClose, st)
        ELSE ParseOpeningTag(input, chunkPos, tagClose, st)

\* A regular tag; chunkPos is the index after '<'.
ParseTag(input, chunkPos, st) ==
    LET tagClose == IndexOf(input, <<">">>, chunkPos)
    IN  IF tagClose = -1
        THEN Wait(st, "tagOpen", SliceFrom(input, chunkPos - 1))
        ELSE IF At(input, chunkPos) = "/"
        THEN ParseClosingTag(input, chunkPos, tagClose, st)
        ELSE ParseOpeningTag(input, chunkPos, tagClose, st)

\* What follows a '<'; lt is the index of the '<'.
ParseMarkup(input, lt, st) ==
    LET chunkPos == lt + 1
        nextChar == At(input, chunkPos)
    IN  IF nextChar = "!" THEN ParseMarkupDeclaration(input, chunkPos, st)
        ELSE IF nextChar = "?"
        THEN ParseProcessingInstruction(input, chunkPos, st)
        ELSE ParseTag(input, chunkPos, st)

\* ParseStep as it would be if text were emitted as soon as it is read,
\* without waiting for the '<' that ends it.
ParseStepEagerText(input, chunkPos, st) ==
    IF At(input, chunkPos) # "<"
    THEN LET nextTag == IndexOf(input, <<"<">>, chunkPos)
         IN  IF nextTag = -1
             THEN [st   |-> Emit(st, TextNode(SliceFrom(input, chunkPos))),
                   pos  |-> 0,
                   stop |-> TRUE]
             ELSE ParseMarkup(input, nextTag,
                      Emit(st, TextNode(Slice(input, chunkPos, nextTag))))
    ELSE ParseMarkup(input, chunkPos, st)

\* ParseStep as it would be if text that a '<' ends were emitted one
\* character at a time.
ParseStepTextByCharacter(input, chunkPos, st) ==
    IF At(input, chunkPos) # "<"
    THEN LET nextTag == IndexOf(input, <<"<">>, chunkPos)
         IN  IF nextTag = -1
             THEN Wait(st, "text", SliceFrom(input, chunkPos))
             ELSE Continue(Emit(st, TextNode(<<At(input, chunkPos)>>)),
                           chunkPos + 1)
    ELSE ParseMarkup(input, chunkPos, st)

\* One iteration of the while loop, with the cursor at chunkPos < end.
ParseStep(input, chunkPos, st) ==
    IF At(input, chunkPos) # "<"
    THEN LET nextTag == IndexOf(input, <<"<">>, chunkPos)
         IN  IF nextTag = -1
             THEN Wait(st, "text", SliceFrom(input, chunkPos))
             ELSE ParseMarkup(input, nextTag,
                      Emit(st, TextNode(Slice(input, chunkPos, nextTag))))
    ELSE ParseMarkup(input, chunkPos, st)

\* while (chunkPos < end) { ... }
RECURSIVE ParseLoop(_, _, _)
ParseLoop(input, chunkPos, st) ==
    IF chunkPos >= Len(input) THEN st
    ELSE LET r == ParseStep(input, chunkPos, st)
         IN  IF r.stop THEN r.st ELSE ParseLoop(input, r.pos, r.st)

\* ParseChunk as it would be if the pending token were used without being
\* cleared.
ParseChunkKeepsWaiting(chunk, w, stack) ==
    ParseLoop(Unwait(w) \o chunk, 0,
              [emitted |-> << >>, tagStack |-> stack, waiting |-> w,
               thrown |-> NoError])

\* ParseChunk as it would be if a call with an empty chunk returned right
\* after leaving waiting mode, without scanning the pending data again.
ParseChunkSkipsEmpty(chunk, w, stack) ==
    IF chunk = << >>
    THEN [emitted |-> << >>, tagStack |-> stack, waiting |-> Null,
          thrown |-> NoError]
    ELSE ParseLoop(Unwait(w) \o chunk, 0,
                   [emitted |-> << >>, tagStack |-> stack, waiting |-> Null,
                    thrown |-> NoError])

\* this._parseChunk(chunk) on an object with the given _waiting and
\* _tagStack: the pending data is put in front of the chunk and the object
\* leaves waiting mode before the scan starts.
ParseChunk(chunk, w, stack) ==
    ParseLoop(Unwait(w) \o chunk, 0,
              [emitted |-> << >>, tagStack |-> stack, waiting |-> Null,
               thrown |-> NoError])

-----------------------------------------------------------------------------
(* The stream handlers _write and _final, in both variants of the class.   *)
(* A handler's result is what it appends to the log: the nodes its         *)
(* _parseChunk emitted, then its own emits and callback invocations.       *)

\* PendingError as it would be with the messages of the comment and the
\* CDATA section exchanged.
PendingErrorSwapped(w) ==
    IF w.token = "cdata" THEN Error("Unclosed comment", << >>)
    ELSE IF w.token = "comment" THEN Error("Unclosed CDATA section", << >>)
    ELSE IF w.token = "processingInstruction"
    THEN Error("Unclosed processing instruction", << >>)
    ELSE IF w.token \in {"tagOpen", "tagClose"}
    THEN Error("Unclosed tag", << >>)
    ELSE NoError

\* PendingError as it would be if a pending '<!' were reported like the
\* other unterminated constructs.
PendingErrorMarkupDeclaration(w) ==
    IF w.token = "cdata" THEN Error("Unclosed CDATA section", << >>)
    ELSE IF w.token = "comment" THEN Error("Unclosed comment", << >>)
    ELSE IF w.token = "processingInstruction"
    THEN Error("Unclosed processing instruction", << >>)
    ELSE IF w.token \in {"tagOpen", "tagClose"}
    THEN Error("Unclosed tag", << >>)
    ELSE IF w.token = "markupDeclaration"
    THEN Error("Unclosed markup declaration", << >>)
    ELSE NoError

\* What _final reports for a token still pending at the end of the input
\* (the switch on this._waiting?.token); NoError where the switch passes.
PendingError(w) ==
    IF w.token = "cdata" THEN Error("Unclosed CDATA section", << >>)
    ELSE IF w.token = "comment" THEN Error("Unclosed comment", << >>)
    ELSE IF w.token = "processingInstruction"
    THEN Error("Unclosed processing instruction", << >>)
    ELSE IF w.token \in {"tagOpen", "tagClose"}
    THEN Error("Unclosed tag", << >>)
    ELSE NoError

\* UnclosedTagsError as it would be if the names were listed in pop order.
UnclosedTagsErrorPopOrder(stack) ==
    LET RECURSIVE Rev(_)
        Rev(q) == IF q = << >> THEN << >> ELSE Append(Rev(Tail(q)), Head(q))
    IN  Error("Unclosed tags: ", Join(Rev(stack)))

\* new Error(`Unclosed tags: ${this._tagStack.join(',')}`)
UnclosedTagsError(stack) == Error("Unclosed tags: ", Join(stack))

\* The end of _final in the first variant: the error for a non-empty tag
\* stack is handed to the callback, and the callback is then called again.
StackCheck1(stack) ==
    IF Len(stack) # 0
    THEN <<Callback("_final", UnclosedTagsError(stack)),
           Callback("_final", NoError)>>
    ELSE <<Callback("_final", NoError)>>

\* The end of __final in the second variant: the error is thrown and
\* reaches the callback once, through the rejected promise.
StackCheck2(stack) ==
    IF Len(stack) # 0
    THEN <<Callback("_final", UnclosedTagsError(stack))>>
    ELSE <<Callback("_final", NoError)>>

StackCheck(v, stack) == IF v = 1 THEN StackCheck1(stack) ELSE StackCheck2(stack)

\* FinalTail as it would be if the tag stack were looked at before the
\* pending construct.
FinalTailStackFirst(v, st) ==
    IF st.thrown # NoError THEN <<Callback("_final", st.thrown)>>
    ELSE IF st.waiting.token = "text"
    THEN <<TextNode(st.waiting.data)>> \o StackCheck(v, st.tagStack)
    ELSE IF Len(st.tagStack) # 0
    THEN StackCheck(v, st.tagStack)
    ELSE IF PendingError(st.waiting) # NoError
    THEN <<Callback("_final", PendingError(st.waiting))>>
    ELSE StackCheck(v, st.tagStack)

\* What _final does after its last _parseChunk pass returned state st.
FinalTail(v, st) ==
    IF st.thrown # NoError THEN <<Callback("_final", st.thrown)>>
    ELSE IF st.waiting.token = "text"
    THEN <<TextNode(st.waiting.data)>> \o StackCheck(v, st.tagStack)
    ELSE IF PendingError(st.waiting) # NoError
    THEN <<Callback("_final", PendingError(st.waiting))>>
    ELSE StackCheck(v, st.tagStack)

\* WriteTail as it would be if neither variant emitted 'finish' after a
\* failed write.
WriteTailNoFinish(v, st) ==
    IF st.thrown = NoError THEN << >>
    ELSE <<Callback("_write", st.thrown)>>

\* What _write does after its _parseChunk returned state st: the first
\* variant calls back with the error or with nothing; the second one also
\* emits 'finish' after calling back with an error.  A callback without an
\* error only lets the stream take the next chunk and is not logged.
WriteTail(v, st) ==
    IF st.thrown = NoError THEN << >>
    ELSE IF v = 1 THEN <<Callback("_write", st.thrown)>>
    ELSE <<Callback("_write", st.thrown), FinishEvent>>

\* this._decoder.end() for a stream that was written strings only
DecoderEnd == << >>

-----------------------------------------------------------------------------
(* The documents of the model: up to MaxPieces pieces of one family put    *)
(* one after the other.  Chunk boundaries fall anywhere, also inside a     *)
(* piece, and the stream may be ended after any prefix of the document.    *)

\* Tags and text.
Pieces ==
    { <<"<", "a", ">">>, <<"<", "/", "a", ">">>,
      <<"<", "b", ">">>, <<"<", "/", "b", ">">>,
      <<"<", "a", "/", ">">>,
      <<"t">> }

\* Comments: openers, bodies and terminators, whole and in parts.
CommentPieces ==
    { <<"<", "!", "-", "-">>, <<"-", "-", ">">>, <<"-", "-">>, <<"-">>,
      <<">">>, <<"c">>, <<"<", "!">> }

\* CDATA sections: the opener, parts of it, near misses, and terminators.
CdataPieces ==
    { <<"<", "!", "[", "C", "D", "A", "T", "A", "[">>, <<"]", "]", ">">>,
      <<"d">>, <<"<", "!", "[">>, <<"C", "D", "A">>, <<"A">> }

\* The three opaque constructs: openers with a body, and terminators.
ConstructPieces ==
    { <<"<", "!", "[", "C", "D", "A", "T", "A", "[", "x">>, <<"]", "]", ">">>,
      <<"<", "!", "-", "-", "x">>, <<"-", "-", ">">>,
      <<"<", "?", "x">>, <<"?", ">">> }

\* The three opaque constructs around text that would be markup outside
\* of them.
OpaquePieces ==
    { <<"<", "!", "[", "C", "D", "A", "T", "A", "[">>, <<"]", "]", ">">>,
      <<"<", "!", "-", "-">>, <<"-", "-", ">">>,
      <<"<", "?">>, <<"?", ">">>,
      <<"<", "a", ">", "&">> }

\* Opening tags with attributes: names, whitespace, slashes and brackets.
TagPieces ==
    { <<"<", "a">>, <<"<">>, <<" ", "b">>, <<" ">>, <<"/", ">">>, <<">">>,
      <<"/">>, <<"<", "a", ">">> }

\* Beginnings of every kind of construct, and characters that end them or
\* are text.
PendingPieces ==
    { <<"<", "!", "-", "-">>, <<"-">>, <<">">>, <<"<", "?">>,
      <<"<", "!", "[", "C", "D", "A", "T", "A", "[">>, <<"<", "a">> }

\* Processing instructions and tags of every kind, whole and in parts.
InstructionPieces ==
    { <<"<", "?", "p", "?", ">">>, <<"<", "?">>, <<"?", ">">>,
      <<"<", "a", ">">>, <<"<", "/", "a", ">">>, <<"<", "a", "/", ">">> }

RECURSIVE DocsOf(_, _)
DocsOf(pieces, n) ==
    IF n = 0 THEN { << >> }
    ELSE { d \o p : d \in DocsOf(pieces, n - 1), p \in pieces }

-----------------------------------------------------------------------------
(* The session.                                                            *)

\* No _parseChunk call is in progress.
NoScan ==
    [op |-> "none", input |-> << >>, chunkPos |-> 0, done |-> TRUE,
     thrown |-> NoError]

InitWith(docs) ==
    /\ variant \in {1, 2}
    /\ doc \in docs
    /\ pos = 0
    /\ waiting = Null
    /\ tagStack = << >>
    /\ log = << >>
    /\ phase = "open"
    /\ last = [op |-> "new", start |-> 0, from |-> 0,
               waiting |-> Null, tagStack |-> << >>]
    /\ scan = NoScan

Init == InitWith(DocsOf(Pieces, MaxPieces))

InitComment == InitWith(DocsOf(CommentPieces, MaxPieces))

InitCdata == InitWith(DocsOf(CdataPieces, MaxPieces))

InitConstruct == InitWith(DocsOf(ConstructPieces, MaxPieces))

InitOpaque == InitWith(DocsOf(OpaquePieces, MaxPieces))

InitPending == InitWith(DocsOf(PendingPieces, MaxPieces))

InitTag == InitWith(DocsOf(TagPieces, MaxPieces))

InitInstruction == InitWith(DocsOf(InstructionPieces, MaxPieces))

\* parser.write(chunk) with the next n characters of the document: the
\* stream hands the chunk to _write.  A failed write does not close the
\* stream (readable-stream 3.x leaves autoDestroy off), so later chunks
\* still reach _write, as in the tests' loop over the chunks.
Write(n) ==
    /\ phase = "open"
    /\ scan = NoScan
    /\ pos + n <= Len(doc)
    /\ LET chunk == SubSeq(doc, pos + 1, pos + n)
           st    == ParseChunk(chunk, waiting, tagStack)
       IN  /\ waiting' = st.waiting
           /\ tagStack' = st.tagStack
           /\ log' = log \o st.emitted \o WriteTail(variant, st)
    /\ pos' = pos + n
    /\ last' = [op |-> "write", start |-> pos, from |-> Len(log),
                waiting |-> waiting, tagStack |-> tagStack]
    /\ UNCHANGED <<variant, doc, phase, scan>>

\* parser.end(): the stream calls _final once, after the last write.
Final ==
    /\ phase = "open"
    /\ scan = NoScan
    /\ LET st == ParseChunk(DecoderEnd, waiting, tagStack)
       IN  /\ waiting' = st.waiting
           /\ tagStack' = st.tagStack
           /\ log' = log \o st.emitted \o FinalTail(variant, st)
    /\ phase' = "ended"
    /\ last' = [op |-> "final", start |-> pos, from |-> Len(log),
                waiting |-> waiting, tagStack |-> tagStack]
    /\ UNCHANGED <<variant, doc, pos, scan>>

\* The sizes of the next chunk: nothing, a few characters, or all the rest.
ChunkSizes == (0 .. MaxChunk) \cup {Len(doc) - pos}

Next ==
    \/ \E n \in ChunkSizes : Write(n)
    \/ Final

Spec == Init /\ [][Next]_vars

SpecComment == InitComment /\ [][Next]_vars

SpecCdata == InitCdata /\ [][Next]_vars

SpecConstruct == InitConstruct /\ [][Next]_vars

SpecPending == InitPending /\ [][Next]_vars

SpecTag == InitTag /\ [][Next]_vars

SpecInstruction == InitInstruction /\ [][Next]_vars

SpecOpaque == InitOpaque /\ [][Next]_vars

-----------------------------------------------------------------------------
(* parse(input), called on a new parser with the whole document.           *)

\* The first variant: this.write(input); this.end().  The stream hands the
\* input to _write and then calls _final.
Parse1 ==
    /\ variant = 1
    /\ last.op = "new"
    /\ LET st1 == ParseChunk(doc, waiting, tagStack)
           st2 == ParseChunk(DecoderEnd, st1.waiting, st1.tagStack)
       IN  /\ waiting' = st2.waiting
           /\ tagStack' = st2.tagStack
           /\ log' = log \o st1.emitted \o WriteTail(variant, st1)
                         \o st2.emitted \o FinalTail(variant, st2)
    /\ pos' = Len(doc)
    /\ phase' = "ended"
    /\ last' = [op |-> "parse", start |-> pos, from |-> Len(log),
                waiting |-> waiting, tagStack |-> tagStack]
    /\ UNCHANGED <<variant, doc, scan>>

\* The second variant, for an input that is a string: this.write(input),
\* and nothing else.  The stream hands the input to _write and stays open.
Parse2 ==
    /\ variant = 2
    /\ last.op = "new"
    /\ LET st == ParseChunk(doc, waiting, tagStack)
       IN  /\ waiting' = st.waiting
           /\ tagStack' = st.tagStack
           /\ log' = log \o st.emitted \o WriteTail(variant, st)
    /\ pos' = Len(doc)
    /\ last' = [op |-> "parse", start |-> pos, from |-> Len(log),
                waiting |-> waiting, tagStack |-> tagStack]
    /\ UNCHANGED <<variant, doc, phase, scan>>

\* The caller calls parse and makes no other call.
NextParse ==
    \/ Parse1
    \/ Parse2

SpecParse == Init /\ [][NextParse]_vars

-----------------------------------------------------------------------------
(* The same session with the loop of _parseChunk followed one iteration at *)
(* a time: the fields of the object change as the loop runs, and the       *)
(* handler calls back once the loop has been left.                         *)

\* A document of every construct, complete; chunk boundaries and an early
\* end of the stream give the incomplete ones.
ScanPieces ==
    { <<"<", "a", ">">>, <<"<", "/", "a", ">">>, <<"t">>,
      <<"<", "!", "-", "-", "-", "-", ">">>, <<"<", "?", "p", "?", ">">>,
      <<"<", "!", "[", "C", "D", "A", "T", "A", "[", "]", "]", ">">> }

InitScan == InitWith(DocsOf(ScanPieces, MaxScanPieces))

\* input = this._unwait() + input; let chunkPos = 0; const end = input.length
BeginScan(op, chunk) ==
    /\ scan' = [op |-> op, input |-> Unwait(waiting) \o chunk, chunkPos |-> 0,
                done |-> Len(Unwait(waiting) \o chunk) = 0, thrown |-> NoError]
    /\ waiting' = Null
    /\ last' = [op |-> op, start |-> pos, from |-> Len(log),
                waiting |-> waiting, tagStack |-> tagStack]
    /\ UNCHANGED <<variant, doc, tagStack, log, phase>>

\* _write is entered with the next n characters and calls _parseChunk.
BeginWrite(n) ==
    /\ phase = "open"
    /\ scan = NoScan
    /\ pos + n <= Len(doc)
    /\ pos' = pos + n
    /\ BeginScan("write", SubSeq(doc, pos + 1, pos + n))

\* _final is entered and calls _parseChunk for what the decoder holds.
BeginFinal ==
    /\ phase = "open"
    /\ scan = NoScan
    /\ pos' = pos
    /\ BeginScan("final", DecoderEnd)

\* One iteration of while (chunkPos < end): it emits, pushes and pops as
\* it goes, and either moves the cursor or leaves the loop.
ScanStep ==
    /\ scan.op # "none"
    /\ ~scan.done
    /\ \E r \in {ParseStep(scan.input, scan.chunkPos,
                          [emitted |-> << >>, tagStack |-> tagStack,
                           waiting |-> waiting, thrown |-> NoError])} :
           /\ log' = log \o r.st.emitted
           /\ tagStack' = r.st.tagStack
           /\ waiting' = r.st.waiting
           /\ scan' = [scan EXCEPT
                           !.chunkPos = IF r.stop THEN @ ELSE r.pos,
                           !.done = r.stop \/ r.pos >= Len(scan.input),
                           !.thrown = r.st.thrown]
    /\ UNCHANGED <<variant, doc, pos, phase, last>>

\* _parseChunk has returned or thrown: the handler does the rest of its
\* work and calls back.
Return ==
    /\ scan.op # "none"
    /\ scan.done
    /\ LET st == [emitted |-> << >>, tagStack |-> tagStack,
                  waiting |-> waiting, thrown |-> scan.thrown]
       IN  log' = log \o (IF scan.op = "write" THEN WriteTail(variant, st)
                          ELSE FinalTail(variant, st))
    /\ phase' = IF scan.op = "final" THEN "ended" ELSE phase
    /\ scan' = NoScan
    /\ UNCHANGED <<variant, doc, pos, waiting, tagStack, last>>

\* The sizes of the next chunk: nothing, a full chunk, or all the rest.
ScanChunkSizes == {0, MaxChunk, Len(doc) - pos}

NextScan ==
    \/ \E n \in ScanChunkSizes : BeginWrite(n)
    \/ BeginFinal
    \/ ScanStep
    \/ Return

\* The loop is plain sequential code: once entered, the call runs on.
SpecScan ==
    /\ InitScan
    /\ [][NextScan]_vars
    /\ WF_vars(ScanStep)
    /\ WF_vars(Return)

-----------------------------------------------------------------------------
(* What an observer of a session sees.                                     *)

\* The text written so far.
Fed == SubSeq(doc, 1, pos)

IsNode(e) == e.type \in NodeTypes

IsError(e) == e.type = "callback" /\ e.error # NoError

\* The node events of a log, in order.
Nodes(l) == SelectSeq(l, IsNode)

\* The entries of a log that report an error.
Errors(l) == SelectSeq(l, IsError)

\* The index of the first error of a log, 0 when it has none.
FirstError(l) ==
    LET hits == { i \in 1 .. Len(l) : IsError(l[i]) }
    IN  IF hits = {} THEN 0 ELSE CHOOSE i \in hits : \A j \in hits : i <= j

\* The outcome of a session: its node events up to the first error, and
\* that error.
Outcome(l) ==
    LET k == FirstError(l)
    IN  IF k = 0 THEN Nodes(l)
        ELSE Nodes(SubSeq(l, 1, k - 1)) \o <<l[k].error>>

\* What the last call appended to the log.
ThisCall == SubSeq(log, last.from + 1, Len(log))

\* What the calls before the last one had logged.
Before == SubSeq(log, 1, last.from)

\* The log of a session that writes text in one chunk and ends the stream.
WholeRun(v, text) ==
    LET st1 == ParseChunk(text, Null, << >>)
        st2 == ParseChunk(DecoderEnd, st1.waiting, st1.tagStack)
    IN  st1.emitted \o WriteTail(v, st1) \o st2.emitted \o FinalTail(v, st2)

\* The length of the source text a node stands for.
SourceLength(e) ==
    IF e.type = "text" THEN Len(e.contents)
    ELSE IF e.type = "cdata" THEN 12 + Len(e.contents)
    ELSE IF e.type = "comment" THEN 7 + Len(e.contents)
    ELSE IF e.type = "processingInstruction" THEN 4 + Len(e.contents)
    ELSE IF e.type = "tagOpen"
    THEN 2 + Len(e.name) + Len(e.attrs) + (IF e.isSelfClosing THEN 1 ELSE 0)
    ELSE 3 + Len(e.name)

\* The length of the source text a sequence of nodes stands for.
RECURSIVE Consumed(_)
Consumed(nodes) ==
    IF nodes = << >> THEN 0
    ELSE SourceLength(Head(nodes)) + Consumed(Tail(nodes))

\* The source text a node stands for.
SourceText(e) ==
    IF e.type = "text" THEN e.contents
    ELSE IF e.type = "cdata"
    THEN <<"<", "!", "[", "C", "D", "A", "T", "A", "[">> \o e.contents
             \o <<"]", "]", ">">>
    ELSE IF e.type = "comment"
    THEN <<"<", "!", "-", "-">> \o e.contents \o <<"-", "-", ">">>
    ELSE IF e.type = "processingInstruction"
    THEN <<"<", "?">> \o e.contents \o <<"?", ">">>
    ELSE IF e.type = "tagOpen"
    THEN <<"<">> \o e.name \o e.attrs
             \o (IF e.isSelfClosing THEN <<"/">> ELSE << >>) \o <<">">>
    ELSE <<"<", "/">> \o e.name \o <<">">>

\* The source text a sequence of nodes stands for.
RECURSIVE SourceOf(_)
SourceOf(nodes) ==
    IF nodes = << >> THEN << >>
    ELSE SourceText(Head(nodes)) \o SourceOf(Tail(nodes))

\* The entries of a log before its first error.
BeforeError(l) ==
    IF FirstError(l) = 0 THEN l ELSE SubSeq(l, 1, FirstError(l) - 1)

\* Replays the tag events of a node sequence on a stack of their own:
\* ok says that every TagClose named the tag opened last, open lists the
\* tags left open, oldest first.
RECURSIVE Nesting(_, _)
Nesting(nodes, open) ==
    IF nodes = << >> THEN [ok |-> TRUE, open |-> open]
    ELSE LET e == Head(nodes)
         IN  IF e.type = "tagOpen" /\ ~e.isSelfClosing
             THEN Nesting(Tail(nodes), Append(open, e.name))
             ELSE IF e.type = "tagClose"
             THEN IF open # << >> /\ open[Len(open)] = e.name
                  THEN Nesting(Tail(nodes), SubSeq(open, 1, Len(open) - 1))
                  ELSE [ok |-> FALSE, open |-> open]
             ELSE Nesting(Tail(nodes), open)

\* The names a sequence of nodes opens: those of its TagOpen nodes that
\* are not self-closing, in order.
RECURSIVE OpenedNames(_)
OpenedNames(nodes) ==
    IF nodes = << >> THEN << >>
    ELSE LET e == Head(nodes)
         IN  IF e.type = "tagOpen" /\ ~e.isSelfClosing
             THEN <<e.name>> \o OpenedNames(Tail(nodes))
             ELSE OpenedNames(Tail(nodes))

\* s begins with p
StartsWith(s, p) == Len(s) >= Len(p) /\ SubSeq(s, 1, Len(p)) = p

\* s ends with p
EndsWith(s, p) ==
    Len(s) >= Len(p) /\ SubSeq(s, Len(s) - Len(p) + 1, Len(s)) = p

RECURSIVE Reverse(_)
Reverse(s) == IF s = << >> THEN << >> ELSE Append(Reverse(Tail(s)), Head(s))

-----------------------------------------------------------------------------
(* Chunking.                                                               *)

\* A session agrees with the session that is fed the same text in a single
\* chunk: while the stream is open, the same outcome so far and, before any
\* error, the same pending token and tag stack; once it has ended, the same
\* outcome.
SameAsWhole ==
    IF phase = "open"
    THEN LET w == ParseChunk(Fed, Null, << >>)
         IN  /\ Outcome(log) = Outcome(w.emitted \o WriteTail(variant, w))
             /\ FirstError(log) = 0 =>
                    /\ waiting = w.waiting
                    /\ tagStack = w.tagStack
    ELSE Outcome(log) = Outcome(WholeRun(variant, Fed))

\* C1: however a text is split into consecutive chunks, feeding the chunks
\* in order and finishing gives the same ordered node events, and the same
\* fatal error if any, as feeding the whole text in one chunk and finishing.
C1_ChunkingIndependence ==
    phase = "ended" => Outcome(log) = Outcome(WholeRun(variant, Fed))

CommentOpener == <<"<", "!", "-", "-">>

CommentTerminator == <<"-", "-", ">">>

\* text is a well-formed comment: '<!--', a body, '-->', the first '--'
\* after the opener being the one of the terminator.
IsComment(text) ==
    /\ Len(text) >= 7
    /\ StartsWith(text, CommentOpener)
    /\ EndsWith(text, CommentTerminator)
    /\ IndexOf(text, <<"-", "-">>, 4) = Len(text) - 3

CommentContents(text) == Slice(text, 4, Len(text) - 3)

\* C5: a well-formed comment that is split across chunks at any position
\* (in the opener, the body or the terminator) yields exactly one Comment
\* event with the body as its contents, and no error.
C5_CommentChunking ==
    (phase = "open" /\ IsComment(Fed)) =>
        log = <<CommentNode(CommentContents(Fed))>>

CdataOpener == <<"<", "!", "[", "C", "D", "A", "T", "A", "[">>

CdataTerminator == <<"]", "]", ">">>

\* text is one CDATA section: '<![CDATA[', contents, and the first ']]>'
\* after the opener at its very end.
IsCdataSection(text) ==
    /\ Len(text) >= 12
    /\ StartsWith(text, CdataOpener)
    /\ IndexOf(text, CdataTerminator, 9) = Len(text) - 3

CdataContents(text) == Slice(text, 9, Len(text) - 3)

\* C6: a CDATA section that is split across chunks at any position (in the
\* opener, the contents or the terminator), down to one character per
\* chunk, yields exactly one Cdata event with the contents it has when fed
\* whole; and every session over CDATA text agrees with the session fed in
\* a single chunk.
C6_CdataChunking ==
    /\ (phase = "open" /\ IsCdataSection(Fed)) =>
           /\ log = <<CDATANode(CdataContents(Fed))>>
           /\ waiting = Null
    /\ SameAsWhole

\* A CDATA section with contents has just been completed by a chunk that
\* begins inside its terminator, the opener having arrived in parts too.
C6_Witness ==
    /\ IsCdataSection(Fed)
    /\ CdataContents(Fed) # << >>
    /\ last.op = "write"
    /\ last.start \in {pos - 2, pos - 1}
    /\ last.waiting.token = "cdata"
    /\ log = <<CDATANode(CdataContents(Fed))>>

\* r is a prefix of the literal 'CDATA['
IsLiteralPrefix(r) ==
    Len(r) <= Len(CdataLiteral) /\ r = SubSeq(CdataLiteral, 1, Len(r))

\* C7: after '<![' the tokenizer keeps waiting only while the characters
\* received so far are a prefix of 'CDATA[', and whatever is not such a
\* prefix is rejected with 'Unrecognized sequence: <![', as an incremental
\* prefix comparison would.
C7_CdataPrefixComparison ==
    (phase = "open" /\ StartsWith(Fed, <<"<", "!", "[">>)) =>
        LET r == Slice(Fed, 3, 9)
        IN  IF IsLiteralPrefix(r)
            THEN FirstError(log) = 0
            ELSE Outcome(log) = <<Error("Unrecognized sequence: <!", <<"[">>)>>

-----------------------------------------------------------------------------
(* Tags and the tag stack.                                                 *)

C3_MismatchedClosingTag ==
    LET k == FirstError(log)
    IN  /\ k = 0 => Nesting(Nodes(log), << >>).ok
        /\ (k # 0 /\ log[k].error.head = "Unclosed tag: ") =>
               LET nodes == Nodes(SubSeq(log, 1, k - 1))
                   open  == Nesting(nodes, << >>)
                   c     == Consumed(nodes)
                   found == Slice(Fed, c + 2, IndexOf(Fed, <<">">>, c))
               IN  /\ open.ok
                   /\ At(Fed, c) = "<" /\ At(Fed, c + 1) = "/"
                   /\ open.open # << >> =>
                          /\ found # open.open[Len(open.open)]
                          /\ log[k].error.tail = open.open[Len(open.open)]
                   /\ k > last.from =>
                          \A i \in (k + 1) .. Len(log) : ~IsNode(log[i])
        /\ (last.op = "write"
              /\ Fed = <<"<", "a", ">", "<", "b", ">", "<", "/", "a", ">">>) =>
               Outcome(log) = << TagOpenNode(<<"a">>, << >>, FALSE),
                                 TagOpenNode(<<"b">>, << >>, FALSE),
                                 Error("Unclosed tag: ", <<"b">>) >>

\* A write has just failed on a closing tag that names the outer of two
\* open tags.
C3_Witness ==
    LET k == FirstError(log)
    IN  /\ last.op = "write"
        /\ k > last.from
        /\ log[k].error.head = "Unclosed tag: "
        /\ Len(Nesting(Nodes(SubSeq(log, 1, k - 1)), << >>).open) = 2
        /\ log[k].error.tail # Nesting(Nodes(SubSeq(log, 1, k - 1)), << >>).open[1]

\* The tokens _final raises no pending-construct error for.
NoPendingError == {"null", "text", "markupDeclaration"}

\* C4 as amended: when the tag stack is not empty as _final runs and no
\* pending-construct error is raised, the session fails with 'Unclosed
\* tags: ' and the names of the open tags joined by commas in the order of
\* the stack, the tag opened first coming first ('<a><b>' gives 'a,b').
C4_UnclosedTagsOldestFirst ==
    /\ (last.op = "final" /\ last.tagStack # << >>
          /\ last.waiting.token \in NoPendingError) =>
           /\ Errors(ThisCall) # << >>
           /\ Errors(ThisCall)[1].error =
                  Error("Unclosed tags: ", Join(last.tagStack))
    /\ (last.op = "final" /\ Fed = <<"<", "a", ">", "<", "b", ">">>) =>
           Outcome(ThisCall) = <<Error("Unclosed tags: ", <<"a", ",", "b">>)>>

\* C4 as claimed: the names are joined in pop order, the tag opened last
\* coming first ('<a><b>' lists b before a).
C4_UnclosedTagsPopOrder ==
    (last.op = "final" /\ last.tagStack # << >>
       /\ last.waiting.token \in NoPendingError) =>
        /\ Errors(ThisCall) # << >>
        /\ Errors(ThisCall)[1].error =
               Error("Unclosed tags: ", Join(Reverse(last.tagStack)))

\* _final has run on a stack of two different open tags.
C4_Witness ==
    /\ last.op = "final"
    /\ last.waiting.token \in NoPendingError
    /\ Len(last.tagStack) = 2
    /\ last.tagStack[1] # last.tagStack[2]
    /\ Errors(ThisCall) # << >>

-----------------------------------------------------------------------------
(* The end of the input.                                                   *)

\* The only entry _final logs when it fails on a pending construct.
FinalFailsWith(head) == ThisCall = <<Callback("_final", Error(head, << >>))>>

\* C8: when _final runs while a CDATA section, a comment or a processing
\* instruction is pending, the session fails with exactly 'Unclosed CDATA
\* section', 'Unclosed comment' or 'Unclosed processing instruction', and
\* no node is emitted for the pending construct.
C8_UnclosedConstruct ==
    last.op = "final" =>
        /\ StartsWith(last.waiting.data, CdataOpener) =>
               FinalFailsWith("Unclosed CDATA section")
        /\ StartsWith(last.waiting.data, CommentOpener) =>
               FinalFailsWith("Unclosed comment")
        /\ StartsWith(last.waiting.data, <<"<", "?">>) =>
               FinalFailsWith("Unclosed processing instruction")

\* _final has run on a pending comment with a body, after a node had been
\* emitted.
C8_Witness ==
    /\ last.op = "final"
    /\ StartsWith(last.waiting.data, CommentOpener)
    /\ Len(last.waiting.data) > 4
    /\ Nodes(Before) # << >>
    /\ FinalFailsWith("Unclosed comment")

\* The pending token w holds a regular tag: a '<' that is followed neither
\* by '!' nor by '?', and whose '>' has not arrived.
IsPendingTag(w) ==
    /\ StartsWith(w.data, <<"<">>)
    /\ At(w.data, 1) \notin {"!", "?"}
    /\ IndexOf(w.data, <<">">>, 0) = -1

\* C9: when _final runs while a regular tag is pending, the session fails
\* with exactly 'Unclosed tag', for an opening tag as for a closing one and
\* whatever the tag stack holds.
C9_UnclosedTag ==
    (last.op = "final" /\ IsPendingTag(last.waiting)) =>
        FinalFailsWith("Unclosed tag")

\* _final has run on a pending closing tag while a tag was open.
C9_Witness ==
    /\ last.op = "final"
    /\ IsPendingTag(last.waiting)
    /\ At(last.waiting.data, 1) = "/"
    /\ Len(last.waiting.data) > 2
    /\ last.tagStack # << >>
    /\ FinalFailsWith("Unclosed tag")

\* The index of the last occurrence of the character c in s, or -1.
LastIndexOf(s, c) ==
    LET hits == { i \in 0 .. (Len(s) - 1) : s[i + 1] = c }
    IN  IF hits = {} THEN -1
        ELSE CHOOSE i \in hits : \A j \in hits : i >= j

\* The text at the end of text that no '<' follows: all of it when it
\* holds no markup, else what follows the '>' of its last tag.
TrailingText(text) ==
    LET lt == LastIndexOf(text, "<")
        gt == LastIndexOf(text, ">")
    IN  IF lt = -1 THEN text
        ELSE IF gt > lt THEN SliceFrom(text, gt + 1)
        ELSE << >>

\* C10: text that no '<' follows yet is not emitted by a write: it is kept
\* whole as the pending Text token, however many writes it arrived in, and
\* _final emits it once, as a single Text node; trailing text raises no
\* error.
C10_TrailingText ==
    LET t == TrailingText(Fed)
    IN  /\ (last.op = "write" /\ FirstError(log) = 0 /\ t # << >>) =>
               /\ waiting = [token |-> "text", data |-> t]
               /\ Consumed(Nodes(log)) = pos - Len(t)
        /\ (last.op = "final" /\ FirstError(Before) = 0 /\ t # << >>) =>
               /\ Nodes(ThisCall) = <<TextNode(t)>>
               /\ Head(ThisCall) = TextNode(t)
               /\ last.tagStack = << >> => Errors(ThisCall) = << >>

\* An error-free session has ended in which _final emitted the text that
\* follows the last tag, text and a tag having been emitted before.
C10_Witness ==
    /\ last.op = "final"
    /\ Errors(log) = << >>
    /\ Len(Nodes(Before)) >= 2
    /\ Nodes(Before)[1].type = "text"
    /\ TrailingText(Fed) # << >>
    /\ Nodes(ThisCall) = <<TextNode(TrailingText(Fed))>>

-----------------------------------------------------------------------------
(* Markup declarations.                                                    *)

\* C11: when the input ends exactly after '<!', so that the pending token
\* is a markup declaration, _final raises no error for it and emits no
\* node for it: with an empty tag stack its only act is the callback
\* without an error, and the '<!' stays pending.
C11_PendingMarkupDeclaration ==
    /\ (last.op = "final" /\ last.waiting.token = "markupDeclaration") =>
           /\ last.waiting.data = <<"<", "!">>
           /\ EndsWith(Fed, <<"<", "!">>)
           /\ waiting = last.waiting
           /\ last.tagStack = << >> =>
                  ThisCall = <<Callback("_final", NoError)>>
    /\ (last.op = "final" /\ Fed = <<"<", "!">>) =>
           log = <<Callback("_final", NoError)>>

\* An error-free session has ended on a pending '<!' that followed a
\* complete comment.
C11_Witness ==
    /\ last.op = "final"
    /\ last.waiting.token = "markupDeclaration"
    /\ Len(Before) = 1
    /\ Before[1].type = "comment"
    /\ ThisCall = <<Callback("_final", NoError)>>

\* C12: once the character after '<!' has been written, and it begins
\* neither a CDATA opener ('[' followed by a prefix of 'CDATA[') nor a
\* comment opener ('-' followed by '-' or by the end of the input so far),
\* the session has failed with 'Unrecognized sequence: <!' followed by that
\* character and has emitted nothing, however the text was chunked.
C12_UnrecognizedSequence ==
    (StartsWith(Fed, <<"<", "!">>) /\ Len(Fed) >= 3) =>
        LET c          == At(Fed, 2)
            isCdata    == c = "[" /\ IsLiteralPrefix(Slice(Fed, 3, 9))
            isComment  == c = "-" /\ At(Fed, 3) \in {"-", Undefined}
        IN  ~(isCdata \/ isComment) =>
                Outcome(log) = <<Error("Unrecognized sequence: <!", <<c>>)>>

\* C13: in a text that begins with a comment opener, the first '--' after
\* the opener decides the comment: followed by a character other than '>',
\* the session fails with 'Unexpected -- inside comment' and emits no
\* Comment; followed by '>', the first event is a Comment whose contents
\* are the text between '<!--' and that '--'.
C13_DoubleHyphen ==
    LET close == IndexOf(Fed, <<"-", "-">>, 4)
        after == At(Fed, close + 2)
    IN  (StartsWith(Fed, CommentOpener) /\ close # -1 /\ after # Undefined) =>
            IF after = ">"
            THEN /\ Outcome(log) # << >>
                 /\ Outcome(log)[1] = CommentNode(Slice(Fed, 4, close))
            ELSE Outcome(log) =
                     <<Error("Unexpected -- inside comment", << >>)>>

-----------------------------------------------------------------------------
(* Errors and the order of the events.                                     *)

\* C14: once an error has been reported, no node is emitted any more:
\* not for the rest of the failing chunk, and not by a later write or by
\* _final.
C14_FatalAbort ==
    LET k == FirstError(log)
    IN  k # 0 => \A i \in (k + 1) .. Len(log) : ~IsNode(log[i])

\* C15: up to the first error the nodes are emitted in the order of the
\* text: their source texts, put one after the other in the order of
\* emission, are the beginning of the text written.  And each node is
\* emitted inside the call that recognises it, before that call calls
\* back: markup by the write that brings its last character, text by the
\* write that brings the '<' after it or by _final.
C15_DocumentOrder ==
    LET nodes == Nodes(BeforeError(log))
        old   == Consumed(Nodes(Before))
        new   == Nodes(ThisCall)
    IN  /\ Consumed(nodes) <= pos
        /\ SourceOf(nodes) = SubSeq(Fed, 1, Consumed(nodes))
        /\ FirstError(Before) = 0 =>
               \A i \in 1 .. Len(new) :
                   LET end == old + Consumed(SubSeq(new, 1, i))
                   IN  IF new[i].type # "text"
                       THEN last.start < end /\ end <= pos
                       ELSE IF last.op = "write"
                       THEN last.start <= end /\ end < pos
                       ELSE end = pos
        /\ \A i, j \in 1 .. Len(ThisCall) :
               (IsNode(ThisCall[j]) /\ ~IsNode(ThisCall[i])) => j < i

\* One write has emitted two nodes, text and the tag after it, after an
\* earlier write had emitted a node.
C15_Witness ==
    /\ last.op = "write"
    /\ FirstError(log) = 0
    /\ Nodes(Before) # << >>
    /\ Len(Nodes(ThisCall)) = 2
    /\ Nodes(ThisCall)[1].type = "text"
    /\ Nodes(ThisCall)[2].type = "tagOpen"

-----------------------------------------------------------------------------
(* Opening tags.                                                           *)

\* The place in the text written where the i-th node of nodes begins.
StartOf(nodes, i) == Consumed(SubSeq(nodes, 1, i - 1))

\* The tag body of the tag that begins at index lt of text: the text
\* between '<' and '>', without a final '/'.
TagBody(text, lt) ==
    LET gt == IndexOf(text, <<">">>, lt)
    IN  Slice(text, lt + 1, IF At(text, gt - 1) = "/" THEN gt - 1 ELSE gt)

\* C16: the name and the attributes of every TagOpen are read off the tag
\* body: without whitespace in the body the name is the whole body and the
\* attributes are empty, else the name is the text before the first
\* whitespace and the attributes are the text from that whitespace to the
\* end of the body, verbatim ('<a />' gives name 'a', attributes ' ').
\* '<', name, attributes, '/' if self-closing, '>' is the source text of
\* the tag.
C16_NameAndAttributes ==
    LET nodes == Nodes(BeforeError(log))
    IN  /\ \A i \in 1 .. Len(nodes) :
               nodes[i].type = "tagOpen" =>
                   LET lt   == StartOf(nodes, i)
                       gt   == IndexOf(Fed, <<">">>, lt)
                       body == TagBody(Fed, lt)
                       ws   == SearchWhitespace(body)
                   IN  /\ At(Fed, lt) = "<" /\ gt # -1
                       /\ ws = -1 =>
                              /\ nodes[i].name = body
                              /\ nodes[i].attrs = << >>
                       /\ ws # -1 =>
                              /\ nodes[i].name = Slice(body, 0, ws)
                              /\ nodes[i].attrs = SliceFrom(body, ws)
                       /\ SourceText(nodes[i]) = Slice(Fed, lt, gt + 1)
        /\ StartsWith(Fed, <<"<", "a", " ", "/", ">">>) =>
               log[1] = TagOpenNode(<<"a">>, <<" ">>, TRUE)

\* A self-closing tag with attributes has been emitted by a write that
\* found the beginning of the tag pending.
C16_Witness ==
    /\ last.op = "write"
    /\ last.waiting.token = "tagOpen"
    /\ FirstError(log) = 0
    /\ \E i \in 1 .. Len(ThisCall) :
           /\ ThisCall[i].type = "tagOpen"
           /\ ThisCall[i].isSelfClosing
           /\ Len(ThisCall[i].attrs) > 1

\* C17: a TagOpen is self-closing exactly when the character before its
\* '>' is '/'.  A call that closes no tag leaves on the tag stack what it
\* found there, followed by the names of the tags it opened that are not
\* self-closing, each once and in order; a self-closing tag is not pushed
\* and is not named by the 'Unclosed tags' error.
C17_SelfClosing ==
    LET nodes == Nodes(BeforeError(log))
    IN  /\ \A i \in 1 .. Len(nodes) :
               nodes[i].type = "tagOpen" =>
                   LET gt == IndexOf(Fed, <<">">>, StartOf(nodes, i))
                   IN  nodes[i].isSelfClosing <=> (At(Fed, gt - 1) = "/")
        /\ (FirstError(log) = 0
              /\ \A i \in 1 .. Len(ThisCall) : ThisCall[i].type # "tagClose") =>
               tagStack = last.tagStack \o OpenedNames(Nodes(ThisCall))
        /\ (last.op = "final" /\ FirstError(Before) = 0
              /\ \A i \in 1 .. Len(log) : log[i].type # "tagClose"
              /\ Errors(ThisCall) # << >>
              /\ Errors(ThisCall)[1].error.head = "Unclosed tags: ") =>
               Errors(ThisCall)[1].error.tail = Join(OpenedNames(Nodes(log)))

\* A session that opened a tag and then a self-closing tag has ended:
\* the first one is left on the stack, alone, and is reported.
C17_Witness ==
    /\ last.op = "final"
    /\ Len(Nodes(Before)) = 2
    /\ Nodes(Before)[1].type = "tagOpen" /\ ~Nodes(Before)[1].isSelfClosing
    /\ Nodes(Before)[2].type = "tagOpen" /\ Nodes(Before)[2].isSelfClosing
    /\ last.tagStack = <<Nodes(Before)[1].name>>
    /\ Errors(ThisCall) # << >>

\* The message for whitespace right after the '<' of a tag.
WhitespaceError == Error("Tag names may not start with whitespace", << >>)

\* C18: a tag whose '<' is followed by whitespace and whose '>' has been
\* written fails the session with 'Tag names may not start with
\* whitespace', and that error is raised for such a tag only; the failing
\* call emits no TagOpen for it and pushes nothing for it: the nodes it
\* emitted before account for the whole tag stack, and no node follows.
C18_WhitespaceTagName ==
    LET k     == FirstError(log)
        nodes == Nodes(BeforeError(log))
        lt    == Consumed(nodes)
        bad   == /\ At(Fed, lt) = "<"
                 /\ At(Fed, lt + 1) \in Whitespace
                 /\ IndexOf(Fed, <<">">>, lt) # -1
    IN  /\ bad => (k # 0 /\ log[k].error = WhitespaceError)
        /\ (k # 0 /\ log[k].error = WhitespaceError) => bad
        /\ (k > last.from /\ log[k].error = WhitespaceError) =>
               /\ tagStack = Nesting(Nodes(ThisCall), last.tagStack).open
               /\ Nodes(ThisCall) = Nodes(SubSeq(log, last.from + 1, k - 1))
               /\ waiting = Null
        /\ (last.op = "write" /\ Fed = <<"<", " ", "b", ">">>) =>
               log = <<Callback("_write", WhitespaceError)>>
                         \o (IF variant = 2 THEN <<FinishEvent>> ELSE << >>)

\* A write has failed on a tag that begins with whitespace, the '<' having
\* arrived with an earlier chunk.
C18_Witness ==
    /\ last.op = "write"
    /\ last.waiting.token = "tagOpen"
    /\ FirstError(log) > last.from
    /\ log[FirstError(log)].error = WhitespaceError

-----------------------------------------------------------------------------
(* The tag stack.                                                          *)

\* The number of entries of a log that satisfy a test.
Count(l, Test(_)) == Len(SelectSeq(l, Test))

IsPush(e) == e.type = "tagOpen" /\ ~e.isSelfClosing

IsPop(e) == e.type = "tagClose"

\* C19: while a session has had no error, the tag stack holds, in opening
\* order, the names of the emitted TagOpen nodes that are not self-closing
\* and have not been closed by an emitted TagClose; its length is the
\* nesting depth (tags opened less tags closed); and every call changes it
\* only by pushing the tags it opens and by popping, for each TagClose it
\* emits, a top entry of the same name.
C19_TagStack ==
    FirstError(log) = 0 =>
        /\ Nesting(Nodes(log), << >>) = [ok |-> TRUE, open |-> tagStack]
        /\ Len(tagStack) = Count(log, IsPush) - Count(log, IsPop)
        /\ Nesting(Nodes(ThisCall), last.tagStack) =
               [ok |-> TRUE, open |-> tagStack]
        /\ Count(ThisCall, IsPop) = 0 =>
               StartsWith(tagStack, last.tagStack)

\* A write that found two tags open has closed the inner one and left the
\* outer one on the stack.
C19_Witness ==
    /\ last.op = "write"
    /\ FirstError(log) = 0
    /\ Len(last.tagStack) = 2
    /\ Len(tagStack) = 1
    /\ Count(ThisCall, IsPop) = 1

\* e reports a mismatched closing tag.
IsMismatch(e) == IsError(e) /\ e.error.head = "Unclosed tag: "

\* C20: a mismatched closing tag empties the tag stack: right after the
\* error 'Unclosed tag: <name>' the stack is empty, whatever its depth was;
\* and when the stream is ended with nothing opened since, _final finds no
\* open tag and reports no 'Unclosed tags' error ('<a><b></a>' ends with
\* the one error 'Unclosed tag: b').
C20_StackDiscarded ==
    /\ (last.op = "write" /\ Errors(ThisCall) # << >>
          /\ IsMismatch(Errors(ThisCall)[1])) =>
           tagStack = << >>
    /\ (last.op = "final" /\ Before # << >>
          /\ \E k \in 1 .. Len(Before) :
                 /\ IsMismatch(Before[k])
                 /\ \A i \in (k + 1) .. Len(Before) : ~IsNode(Before[i])) =>
           /\ last.tagStack = << >>
           /\ \A i \in 1 .. Len(ThisCall) :
                  IsError(ThisCall[i]) =>
                      ThisCall[i].error.head # "Unclosed tags: "
    /\ (last.op = "final"
          /\ Fed = <<"<", "a", ">", "<", "b", ">", "<", "/", "a", ">">>) =>
           /\ Errors(log) = <<Callback("_write", Error("Unclosed tag: ", <<"b">>))>>
           /\ ThisCall = <<Callback("_final", NoError)>>

\* The stream has been ended after a closing tag that failed with two
\* tags open, and _final has called back without an error.
C20_Witness ==
    /\ last.op = "final"
    /\ FirstError(log) # 0
    /\ IsMismatch(log[FirstError(log)])
    /\ Len(Nesting(Nodes(BeforeError(log)), << >>).open) = 2
    /\ ThisCall = <<Callback("_final", NoError)>>

-----------------------------------------------------------------------------
(* The pending token.                                                      *)

\* The chunk the last write handed to _write.
LastChunk == SubSeq(doc, last.start + 1, pos)

\* C21: a write scans the data of the pending token it finds followed by
\* its chunk, and the pending token it leaves holds what it did not
\* consume: without an error, the nodes it emitted followed by the data
\* left pending spell exactly the old pending data followed by the chunk.
\* So a write that consumed all of that text leaves no pending token, and
\* so does a write that raised an error; what is left pending is one
\* token, the end of the text written.
C21_PendingLifecycle ==
    last.op = "write" =>
        /\ Errors(ThisCall) # << >> => waiting = Null
        /\ Errors(ThisCall) = << >> =>
               /\ Unwait(last.waiting) \o LastChunk =
                      SourceOf(Nodes(ThisCall)) \o Unwait(waiting)
               /\ (waiting = Null) <=>
                      (Unwait(last.waiting) \o LastChunk =
                           SourceOf(Nodes(ThisCall)))
               /\ waiting # Null => waiting.data # << >>
        /\ FirstError(log) = 0 =>
               Fed = SourceOf(Nodes(log)) \o Unwait(waiting)

\* A write that found a construct pending has completed it, emitted it,
\* and left the beginning of another kind of construct pending.
C21_Witness ==
    /\ last.op = "write"
    /\ FirstError(log) = 0
    /\ last.waiting.token \in {"cdata", "comment", "processingInstruction"}
    /\ Nodes(ThisCall) # << >>
    /\ waiting.token \in {"cdata", "comment", "processingInstruction"}
    /\ waiting.token # last.waiting.token

-----------------------------------------------------------------------------
(* Opaque contents.                                                        *)

\* The node at index i of nodes begins in text with opener and has for
\* contents the text up to the first terminator that follows the opener.
IsOpaque(text, nodes, i, opener, terminator) ==
    LET lt    == StartOf(nodes, i)
        from  == lt + Len(opener)
        close == IndexOf(text, terminator, from)
    IN  /\ Slice(text, lt, from) = opener
        /\ close # -1
        /\ nodes[i].contents = Slice(text, from, close)

\* A construct with this opener, pending as data, has no terminator yet.
IsUnterminated(data, opener, terminator) ==
    StartsWith(data, opener) => IndexOf(data, terminator, Len(opener)) = -1

\* C22: a CDATA section runs from '<![CDATA[' to the first ']]>' after
\* it, a processing instruction from '<?' to the first '?>', a comment
\* from '<!--' to the first '--', and the contents are the text in between,
\* verbatim.  What looks like markup inside ('<a>&') gives no node of its
\* own and leaves the tag stack alone: the nodes are consecutive in the
\* text and the stack holds only the tags the TagOpen nodes opened.
C22_OpaqueContents ==
    LET nodes == Nodes(BeforeError(log))
    IN  /\ \A i \in 1 .. Len(nodes) :
               /\ nodes[i].type = "cdata" =>
                      IsOpaque(Fed, nodes, i, CdataOpener, CdataTerminator)
               /\ nodes[i].type = "processingInstruction" =>
                      IsOpaque(Fed, nodes, i, <<"<", "?">>, <<"?", ">">>)
               /\ nodes[i].type = "comment" =>
                      IsOpaque(Fed, nodes, i, CommentOpener, <<"-", "-">>)
        /\ Consumed(nodes) <= pos
        /\ SourceOf(nodes) = SubSeq(Fed, 1, Consumed(nodes))
        /\ FirstError(log) = 0 =>
               /\ tagStack = OpenedNames(nodes)
               /\ last.op = "write" =>
                      /\ IsUnterminated(Unwait(waiting), CdataOpener,
                                        CdataTerminator)
                      /\ IsUnterminated(Unwait(waiting), <<"<", "?">>,
                                        <<"?", ">">>)
                      /\ IsUnterminated(Unwait(waiting), CommentOpener,
                                        <<"-", "-">>)
        /\ (last.op = "write" /\ Fed = CdataOpener \o <<"<", "a", ">", "&">>
                                         \o CdataTerminator) =>
               /\ log = <<CDATANode(<<"<", "a", ">", "&">>)>>
               /\ tagStack = << >>

\* A processing instruction whose contents hold a tag and an ampersand has
\* been emitted by a write that found its beginning pending; no tag is
\* open.
C22_Witness ==
    /\ last.op = "write"
    /\ last.waiting.token = "processingInstruction"
    /\ ThisCall = <<ProcessingInstructionNode(<<"<", "a", ">", "&">>)>>
    /\ tagStack = << >>

-----------------------------------------------------------------------------
(* Termination of _parseChunk.                                             *)

\* An iteration of the loop that does not leave it moves the cursor
\* forward, over the same input.
CursorAdvances ==
    (scan.op # "none" /\ ~scan.done /\ scan'.op # "none") =>
        /\ scan'.input = scan.input
        /\ scan'.done \/ scan'.chunkPos > scan.chunkPos
        /\ scan'.chunkPos >= scan.chunkPos

\* What a call has done when the handler calls back: it raised an error,
\* or the nodes it emitted and the data it left pending spell all of the
\* text it had to scan, the old pending data followed by the chunk.
Returned ==
    (scan = NoScan /\ last.op = "write") =>
        \/ Errors(ThisCall) # << >>
        \/ Unwait(last.waiting) \o LastChunk =
               SourceOf(Nodes(ThisCall)) \o Unwait(waiting)

\* C23: every call of _parseChunk terminates.  Each iteration of its loop
\* either leaves the loop or moves the cursor strictly forward; a call
\* that has been entered always returns to its handler, without waiting
\* for more data; and when it returns it has consumed all of its text,
\* raised an error, or left the whole unconsumed end of the text in the
\* pending token.
C23_Termination ==
    /\ [][CursorAdvances]_vars
    /\ (scan.op # "none") ~> (scan = NoScan)
    /\ []Returned

\* A write is in the middle of its loop: it has emitted a node, its cursor
\* has moved on, and there is text left to scan.
C23_Witness ==
    /\ scan.op = "write"
    /\ ~scan.done
    /\ scan.chunkPos > 0
    /\ scan.chunkPos < Len(scan.input)
    /\ Len(log) > last.from
    /\ last.waiting # Null

-----------------------------------------------------------------------------
(* parse.                                                                  *)

\* C24: once parse(input) has been called, the stream has been closed and
\* the end of the input has been processed, with no other call of the
\* caller: the log is the one of a session that writes the input and ends
\* the stream, with the trailing text and the errors for an unclosed
\* construct and for unclosed tags.
C24_ParseClosesTheStream ==
    last.op = "parse" =>
        /\ phase = "ended"
        /\ log = WholeRun(variant, doc)

-----------------------------------------------------------------------------
(* parseAttrs, from './attrs'.  The module is not part of the sources at   *)
(* hand: the operator follows section 4.2 of the design document, and the  *)
(* wording and the cases of the attribute parser's tests.                  *)

Quotes == {"\"", "'"}

\* An attribute map without entries.
NoAttrs == [n \in {} |-> << >>]

\* attrs[name] = value: a later value of a name replaces the earlier one
Put(attrs, name, value) ==
    [n \in (DOMAIN attrs) \cup {name} |-> IF n = name THEN value ELSE attrs[n]]

\* The index of the first character at or after position that is not
\* whitespace, the length of the input if there is none.
SeekNotWhitespace(input, position) ==
    LET hits == { i \in position .. (Len(input) - 1) :
                    input[i + 1] \notin Whitespace }
    IN  IF hits = {} THEN Max(position, Len(input))
        ELSE CHOOSE i \in hits : \A j \in hits : i <= j

\* The outcomes of reading one attribute.
AttrsError(head, attrs) ==
    [error |-> Error(head, << >>), attrs |-> attrs, position |-> 0]

\* ParseAttr as it would be if it trimmed the whitespace at the end of a
\* value.
ParseAttrTrimmed(input, position, attrs) ==
    LET eqPos        == IndexOf(input, <<"=">>, position)
        attrName     == Slice(input, position, eqPos)
        valueQuote   == At(input, eqPos + 1)
        closingQuote == IndexOf(input, <<valueQuote>>, eqPos + 2)
        raw          == Slice(input, eqPos + 2, closingQuote)
        attrValue    == IF raw # << >> /\ raw[Len(raw)] \in Whitespace
                        THEN SubSeq(raw, 1, Len(raw) - 1) ELSE raw
    IN  IF eqPos = -1
        THEN AttrsError("Expected a value for the attribute", attrs)
        ELSE IF SearchWhitespace(attrName) # -1
        THEN AttrsError("Attribute names may not contain whitespace", attrs)
        ELSE IF valueQuote \notin Quotes
        THEN AttrsError("Attribute values should be quoted", attrs)
        ELSE IF closingQuote = -1
        THEN AttrsError("Unclosed attribute value", attrs)
        ELSE [error    |-> NoError,
              attrs    |-> Put(attrs, attrName, attrValue),
              position |-> closingQuote + 1]

\* ParseAttr as it would be if either quote character closed a value.
ParseAttrAnyQuote(input, position, attrs) ==
    LET eqPos        == IndexOf(input, <<"=">>, position)
        attrName     == Slice(input, position, eqPos)
        valueQuote   == At(input, eqPos + 1)
        closers      == { IndexOf(input, <<q>>, eqPos + 2) : q \in Quotes }
                            \ {-1}
        closingQuote == IF closers = {} THEN -1
                        ELSE CHOOSE i \in closers : \A j \in closers : i <= j
        attrValue    == Slice(input, eqPos + 2, closingQuote)
    IN  IF eqPos = -1
        THEN AttrsError("Expected a value for the attribute", attrs)
        ELSE IF SearchWhitespace(attrName) # -1
        THEN AttrsError("Attribute names may not contain whitespace", attrs)
        ELSE IF valueQuote \notin Quotes
        THEN AttrsError("Attribute values should be quoted", attrs)
        ELSE IF closingQuote = -1
        THEN AttrsError("Unclosed attribute value", attrs)
        ELSE [error    |-> NoError,
              attrs    |-> Put(attrs, attrName, attrValue),
              position |-> closingQuote + 1]

\* One attribute, read from position, the index of the first character
\* of its name: the name runs up to the next '=', the value from the quote
\* after the '=' up to the next quote of the same character, and is kept
\* as it is written.  The scan goes on after the closing quote.
ParseAttr(input, position, attrs) ==
    LET eqPos        == IndexOf(input, <<"=">>, position)
        attrName     == Slice(input, position, eqPos)
        valueQuote   == At(input, eqPos + 1)
        closingQuote == IndexOf(input, <<valueQuote>>, eqPos + 2)
        attrValue    == Slice(input, eqPos + 2, closingQuote)
    IN  IF eqPos = -1
        THEN AttrsError("Expected a value for the attribute", attrs)
        ELSE IF SearchWhitespace(attrName) # -1
        THEN AttrsError("Attribute names may not contain whitespace", attrs)
        ELSE IF valueQuote \notin Quotes
        THEN AttrsError("Attribute values should be quoted", attrs)
        ELSE IF closingQuote = -1
        THEN AttrsError("Unclosed attribute value", attrs)
        ELSE [error    |-> NoError,
              attrs    |-> Put(attrs, attrName, attrValue),
              position |-> closingQuote + 1]

\* The scan from left to right: whitespace is skipped, then one attribute
\* is read, until the input ends or an attribute is malformed.
RECURSIVE ParseAttrsFrom(_, _, _)
ParseAttrsFrom(input, position0, attrs) ==
    LET position == SeekNotWhitespace(input, position0)
    IN  IF position >= Len(input)
        THEN [error |-> NoError, attrs |-> attrs]
        ELSE LET r == ParseAttr(input, position, attrs)
             IN  IF r.error # NoError
                 THEN [error |-> r.error, attrs |-> NoAttrs]
                 ELSE ParseAttrsFrom(input, r.position, r.attrs)

\* parseAttrs(input): the attribute map, or the error thrown, and then no
\* map.
ParseAttrs(input) == ParseAttrsFrom(input, 0, NoAttrs)

\* Attributes as they are written: whitespace, then a name, '=', and a
\* value between two quotes of one character.  A part without a name is
\* whitespace only.
AttrPart(lead, name, quote, value) ==
    [lead |-> lead, name |-> name, quote |-> quote, value |-> value]

WellFormedParts ==
    { AttrPart(<<" ">>, <<"a">>, "\"", <<"1">>),
      AttrPart(<<" ">>, <<"b">>, "'", <<"2">>),
      AttrPart(<<" ", " ">>, <<"a">>, "\"", <<"x", " ">>),
      AttrPart(<<" ">>, <<"c">>, "'", <<"\"">>),
      AttrPart(<<" ">>, << >>, "", << >>) }

\* The text of a part.
Written(part) ==
    IF part.name = << >> THEN part.lead
    ELSE part.lead \o part.name \o <<"=", part.quote>> \o part.value
             \o <<part.quote>>

WellFormedAttrs == { Written(part) : part \in WellFormedParts }

\* Attributes with a value closed by the other quote or not quoted, and
\* names without a value.
MalformedAttrs ==
    { <<" ", "a", "=", "\"", "1", "'">>,
      <<" ", "b", "=", "'", "2", "\"">>,
      <<" ", "a", "=", "1">>,
      <<" ", "b", "=">>,
      <<" ", "a">> }

AttrPieces == WellFormedAttrs \cup MalformedAttrs

\* The sequences of up to n pieces.
RECURSIVE PieceSeqs(_, _)
PieceSeqs(pieces, n) ==
    IF n = 0 THEN { << >> }
    ELSE PieceSeqs(pieces, n - 1)
             \cup { Append(ps, p) : ps \in PieceSeqs(pieces, n - 1),
                                    p \in pieces }

\* The text of a sequence of pieces.
RECURSIVE Concat(_)
Concat(ps) == IF ps = << >> THEN << >> ELSE Head(ps) \o Concat(Tail(ps))

\* A caller has put together a text, doc, from pieces, and has not called
\* yet.
InitCaller(pieces) ==
    /\ variant = 1
    /\ \E ps \in PieceSeqs(pieces, MaxPieces) :
           /\ doc = Concat(ps)
           /\ last = [op |-> "new", pieces |-> ps]
    /\ pos = 0
    /\ waiting = Null
    /\ tagStack = << >>
    /\ log = << >>
    /\ phase = "open"
    /\ scan = NoScan

InitAttrs == InitCaller(AttrPieces)

\* The caller calls parseAttrs(doc) and keeps what it returns or throws.
CallParseAttrs ==
    /\ last.op = "new"
    /\ last' = [op |-> "parseAttrs", pieces |-> last.pieces,
                result |-> ParseAttrs(doc)]
    /\ pos' = Len(doc)
    /\ UNCHANGED <<variant, doc, waiting, tagStack, log, phase, scan>>

NextAttrs == CallParseAttrs

SpecAttrs == InitAttrs /\ [][NextAttrs]_vars

-----------------------------------------------------------------------------
(* The attribute parser on well-formed and on malformed blobs.             *)

\* The part a well-formed piece is the text of.
PartOf(piece) == CHOOSE part \in WellFormedParts : Written(part) = piece

\* The map a sequence of well-formed pieces spells: an entry for every
\* name, with the value between the quotes of the last piece of that name.
Spelled(ps) ==
    LET named == { i \in 1 .. Len(ps) : PartOf(ps[i]).name # << >> }
        names == { PartOf(ps[i]).name : i \in named }
    IN  [n \in names |->
            LET k == CHOOSE i \in named :
                         /\ PartOf(ps[i]).name = n
                         /\ \A j \in named : PartOf(ps[j]).name = n => j <= i
            IN  PartOf(ps[k]).value]

\* The blob is well formed: all of its pieces are.
IsWellFormed(ps) == \A i \in 1 .. Len(ps) : ps[i] \in WellFormedAttrs

\* C25: on a well-formed blob, whitespace-separated attributes each made
\* of a name, '=' and a value between double or single quotes, parseAttrs
\* throws nothing and returns a map with one entry for every name of the
\* blob, whose value is the text between the quotes, character for
\* character, whitespace included.
C25_WellFormedBlob ==
    (last.op = "parseAttrs" /\ IsWellFormed(last.pieces)) =>
        /\ last.result.error = NoError
        /\ last.result.attrs = Spelled(last.pieces)

\* A blob of three attributes has been parsed, in the shape of the one of
\* the tests: two names, two spaces before the third attribute, and a value
\* that ends with a space.
C25_Witness ==
    /\ last.op = "parseAttrs"
    /\ IsWellFormed(last.pieces)
    /\ doc = <<" ", "b", "=", "'", "2", "'">> \o <<" ", "c", "=", "'", "\"", "'">>
                 \o <<" ", " ", "a", "=", "\"", "x", " ", "\"">>
    /\ DOMAIN last.result.attrs = {<<"a">>, <<"b">>, <<"c">>}
    /\ last.result.attrs[<<"a">>] = <<"x", " ">>

\* The attribute a text starts with, after whitespace: where its name
\* starts and where its '=' is.  The name is not empty and holds neither
\* whitespace nor a quote.
NameOf(t) ==
    LET p == SeekNotWhitespace(t, 0)
        e == IndexOf(t, <<"=">>, p)
    IN  [start |-> p, eq |-> e, name |-> Slice(t, p, e)]

HasName(t) ==
    LET a == NameOf(t)
    IN  /\ a.eq > a.start
        /\ \A i \in 1 .. Len(a.name) : a.name[i] \notin Whitespace \cup Quotes

\* The '=' of the attribute is followed by a quote, and that quote
\* character is not written again in the rest of the text.
IsUnclosedValue(t) ==
    /\ HasName(t)
    /\ LET e == NameOf(t).eq
       IN  /\ At(t, e + 1) \in Quotes
           /\ \A i \in (e + 2) .. (Len(t) - 1) : At(t, i) # At(t, e + 1)

\* The '=' of the attribute is followed by something else than a quote,
\* or by nothing.
IsUnquotedValue(t) ==
    /\ HasName(t)
    /\ At(t, NameOf(t).eq + 1) \notin Quotes

\* The call failed with this message and returned no map.
AttrsFailedWith(head) ==
    /\ last.result.error = Error(head, << >>)
    /\ last.result.attrs = NoAttrs

\* The text of a blob from its first malformed piece on, empty when all
\* pieces are well formed.
Malformed(ps) ==
    LET bad == { i \in 1 .. Len(ps) : ps[i] \notin WellFormedAttrs }
    IN  IF bad = {} THEN << >>
        ELSE Concat(SubSeq(ps, CHOOSE i \in bad : \A j \in bad : i <= j,
                           Len(ps)))

\* C26: parseAttrs fails, and returns no map, when after well-formed
\* attributes it comes to an attribute whose value is malformed: with
\* 'Unclosed attribute value' when the quote that opens the value is not
\* followed by a quote of the same character (a single quote does not
\* close a double one, nor a double quote a single one), and with
\* 'Attribute values should be quoted' when the '=' is not immediately
\* followed by a quote.
C26_MalformedValue ==
    last.op = "parseAttrs" =>
        LET t == Malformed(last.pieces)
        IN  /\ IsUnclosedValue(t) => AttrsFailedWith("Unclosed attribute value")
            /\ IsUnquotedValue(t) =>
                   AttrsFailedWith("Attribute values should be quoted")

\* After a well-formed attribute, a value opened by a double quote and
\* followed by a single quote only has been rejected.
C26_Witness ==
    /\ last.op = "parseAttrs"
    /\ doc = <<" ", "b", "=", "'", "2", "'">> \o <<" ", "a", "=", "\"", "1", "'">>
    /\ AttrsFailedWith("Unclosed attribute value")

-----------------------------------------------------------------------------
(* parseEntities, from './entities'.  The module is not part of the        *)
(* sources at hand: the operator follows section 4.3 of the design         *)
(* document and the cases of the entities tests.                           *)

\* The named references and the characters they stand for.
NamedEntities ==
    { [name |-> <<"a", "m", "p">>, char |-> "&"],
      [name |-> <<"l", "t">>, char |-> "<"],
      [name |-> <<"g", "t">>, char |-> ">"],
      [name |-> <<"q", "u", "o", "t">>, char |-> "\""],
      [name |-> <<"a", "p", "o", "s">>, char |-> "'"] }

\* The value of a digit in a numeric reference.
DigitValue ==
    [c \in {"0", "1", "2", "3", "4", "5", "6", "7", "8", "9",
            "a", "b", "c", "d", "e", "f", "A", "B", "C", "D", "E", "F"} |->
        CASE c = "0" -> 0 [] c = "1" -> 1 [] c = "2" -> 2 [] c = "3" -> 3
          [] c = "4" -> 4 [] c = "5" -> 5 [] c = "6" -> 6 [] c = "7" -> 7
          [] c = "8" -> 8 [] c = "9" -> 9
          [] c \in {"a", "A"} -> 10 [] c \in {"b", "B"} -> 11
          [] c \in {"c", "C"} -> 12 [] c \in {"d", "D"} -> 13
          [] c \in {"e", "E"} -> 14 [] c \in {"f", "F"} -> 15]

DecimalDigits == {"0", "1", "2", "3", "4", "5", "6", "7", "8", "9"}

HexDigits == DOMAIN DigitValue

\* The number a sequence of digits writes in a base.
RECURSIVE NumberOf(_, _)
NumberOf(digits, base) ==
    IF digits = << >> THEN 0
    ELSE NumberOf(SubSeq(digits, 1, Len(digits) - 1), base) * base
             + DigitValue[digits[Len(digits)]]

\* String.fromCodePoint(n), for the code points of the characters the
\* named references stand for and of two letters.  The other code points
\* are not told apart.
FromCodePoint(n) ==
    CASE n = 34 -> "\"" [] n = 38 -> "&" [] n = 39 -> "'"
      [] n = 60 -> "<"  [] n = 62 -> ">"
      [] n = 65 -> "A"  [] n = 97 -> "a"
      [] OTHER -> "U+"

\* A text is a non-empty run of digits of a set.
IsNumber(text, digits) ==
    text # << >> /\ \A i \in 1 .. Len(text) : text[i] \in digits

\* The reference that starts at index position, where the input has an
\* '&': how many characters it takes and the text that replaces it.  No
\* characters when what starts there is no reference: no ';' follows, the
\* name is not one of the five, or the number is not written in digits.
Reference(input, position) ==
    LET end     == IndexOf(input, <<";">>, position)
        payload == Slice(input, position + 1, end)
        named   == { e \in NamedEntities : e.name = payload }
        decimal == SliceFrom(payload, 1)
        hex     == SliceFrom(payload, 2)
        none    == [length |-> 0, text |-> << >>]
        char(c) == [length |-> end + 1 - position, text |-> <<c>>]
    IN  IF end = -1 THEN none
        ELSE IF named # {} THEN char((CHOOSE e \in named : TRUE).char)
        ELSE IF At(payload, 0) = "#" /\ At(payload, 1) \in {"x", "X"}
                /\ IsNumber(hex, HexDigits)
        THEN char(FromCodePoint(NumberOf(hex, 16)))
        ELSE IF At(payload, 0) = "#" /\ IsNumber(decimal, DecimalDigits)
        THEN char(FromCodePoint(NumberOf(decimal, 10)))
        ELSE none

\* The pass from left to right: a reference is replaced and the pass goes
\* on after it; any other character is copied.
RECURSIVE DecodeFrom(_, _)
DecodeFrom(input, position) ==
    IF position >= Len(input) THEN << >>
    ELSE LET r == IF input[position + 1] = "&"
                  THEN Reference(input, position)
                  ELSE [length |-> 0, text |-> << >>]
         IN  IF r.length > 0
             THEN r.text \o DecodeFrom(input, position + r.length)
             ELSE <<input[position + 1]>> \o DecodeFrom(input, position + 1)

\* parseEntities as it would be if it went over its own output again.
ParseEntitiesRescanning(input) ==
    [error |-> NoError, text |-> DecodeFrom(DecodeFrom(input, 0), 0)]

\* parseEntities(input): the decoded text; nothing is thrown.
ParseEntities(input) == [error |-> NoError, text |-> DecodeFrom(input, 0)]

\* References of the five names, in decimal and in hexadecimal.
References ==
    { <<"&", "a", "m", "p", ";">>, <<"&", "l", "t", ";">>,
      <<"&", "g", "t", ";">>, <<"&", "q", "u", "o", "t", ";">>,
      <<"&", "a", "p", "o", "s", ";">>,
      <<"&", "#", "3", "8", ";">>, <<"&", "#", "x", "3", "C", ";">>,
      <<"&", "#", "X", "3", "e", ";">> }

\* Text, and what is no reference: an unknown name, a name without ';',
\* and numbers that are not written in digits.
NonReferences ==
    { <<"l", "t", ";">>, <<"t">>,
      <<"&", "u", ";">>, <<"&", "a", "m", "p">>,
      <<"&", "#", "n", ";">>, <<"&", "#", "x", "g", ";">> }

EntityPieces == References \cup NonReferences

InitEntities == InitCaller(EntityPieces)

\* The caller calls parseEntities(doc) and keeps what it returns.
CallParseEntities ==
    /\ last.op = "new"
    /\ last' = [op |-> "parseEntities", pieces |-> last.pieces,
                result |-> ParseEntities(doc)]
    /\ pos' = Len(doc)
    /\ UNCHANGED <<variant, doc, waiting, tagStack, log, phase, scan>>

NextEntities == CallParseEntities

SpecEntities == InitEntities /\ [][NextEntities]_vars

-----------------------------------------------------------------------------
(* The decoder on references and on what only looks like one.              *)

\* The character a reference of the model's texts stands for.
StandsFor(piece) ==
    CASE piece \in { <<"&", "a", "m", "p", ";">>, <<"&", "#", "3", "8", ";">> }
             -> "&"
      [] piece \in { <<"&", "l", "t", ";">>, <<"&", "#", "x", "3", "C", ";">> }
             -> "<"
      [] piece \in { <<"&", "g", "t", ";">>, <<"&", "#", "X", "3", "e", ";">> }
             -> ">"
      [] piece = <<"&", "q", "u", "o", "t", ";">> -> "\""
      [] piece = <<"&", "a", "p", "o", "s", ";">> -> "'"

\* The text the pieces decode to, each on its own and only once: the
\* character of a reference, and any other piece as it is written.
RECURSIVE Decoded(_)
Decoded(ps) ==
    IF ps = << >> THEN << >>
    ELSE (IF Head(ps) \in References THEN <<StandsFor(Head(ps))>>
          ELSE Head(ps))
             \o Decoded(Tail(ps))

\* C27: parseEntities never fails.  In one pass from left to right it
\* replaces the five named references and the decimal and hexadecimal
\* numeric references by their characters, and leaves as it is written
\* whatever else starts with '&': an unknown name, a name without its
\* ';', a number that is not written in digits.  What a replacement puts
\* into the output is not decoded again, also when it spells a reference
\* together with the text that follows it.
C27_DecodeEntities ==
    last.op = "parseEntities" =>
        /\ last.result.error = NoError
        /\ last.result.text = Decoded(last.pieces)

\* A text has been decoded in which the '&' that replaces a reference is
\* followed by 'lt;', and in which a name has no ';'.
C27_Witness ==
    /\ last.op = "parseEntities"
    /\ last.pieces = << <<"&", "#", "3", "8", ";">>, <<"l", "t", ";">>,
                        <<"&", "a", "m", "p">> >>
    /\ last.result.text = <<"&", "l", "t", ";", "&", "a", "m", "p">>

-----------------------------------------------------------------------------
(* 'finish' after a failed write.                                          *)

\* An entry of the log is _write's callback with an error.
IsWriteError(e) == IsError(e) /\ e.of = "_write"

\* C28: in the second variant, whose _write emits 'finish' itself, a
\* session in which a written chunk raises a fatal error emits 'finish'
\* after the error has been handed to the callback: in the log every
\* error of a write is followed at once by 'finish', so that a listener
\* of 'finish' is released whatever the caller does next.  (In the first
\* variant 'finish' is left to the stream.)
C28_FinishAfterError ==
    variant = 2 =>
        \A i \in 1 .. Len(log) :
            IsWriteError(log[i]) => (i < Len(log) /\ log[i + 1] = FinishEvent)

\* A write of the second variant has emitted a node, failed on a closing
\* tag that does not match, and emitted 'finish'.
C28_Witness ==
    /\ variant = 2
    /\ last.op = "write"
    /\ Len(ThisCall) = 3
    /\ IsNode(ThisCall[1])
    /\ IsWriteError(ThisCall[2])
    /\ ThisCall[2].error.head = "Unclosed tag: "
    /\ ThisCall[3] = FinishEvent

-----------------------------------------------------------------------------
(* The callback of _final.                                                 *)

\* An entry of the log is a call of _final's callback, with an error or
\* without one.
IsFinalCallback(e) == e.type = "callback" /\ e.of = "_final"

\* C29: _final calls its callback exactly once, whichever way it ends:
\* without an error, with the error of a pending construct, with the
\* error its last _parseChunk pass threw, or with 'Unclosed tags' for a
\* tag stack that is not empty; it never calls back with an error and then
\* again without one.
C29_FinalCallsBackOnce ==
    last.op = "final" =>
        /\ Count(ThisCall, IsFinalCallback) = 1
        /\ IsError(ThisCall[Len(ThisCall)]) \/ Errors(ThisCall) = << >>

-----------------------------------------------------------------------------
(* A closing tag while no tag is open.                                     *)

-----------------------------------------------------------------------------
(* Sessions over whole constructs of every kind.                           *)

SpecNodes == InitScan /\ [][Next]_vars

\* C31: the input is conserved.  After every write of a session that has
\* had no error, the source texts of the nodes emitted so far (the
\* contents of a Text node; '<![CDATA[' contents ']]>'; '<!--' contents
\* '-->'; '<?' contents '?>'; '<' name attrs '>' with a '/' before the '>'
\* of a self-closing tag; '</' name '>'), put one after the other in the
\* order of emission and followed by the data of the pending token, are
\* the chunks written so far put one after the other: no character is
\* dropped, written twice or moved.
C31_InputConserved ==
    (last.op = "write" /\ FirstError(log) = 0) =>
        /\ SourceOf(Nodes(log)) \o Unwait(waiting) = Fed
        /\ Consumed(Nodes(log)) + Len(Unwait(waiting)) = pos

\* A write has completed a CDATA section whose beginning was pending and
\* has left the text after it pending.
C31_Witness ==
    /\ last.op = "write"
    /\ FirstError(log) = 0
    /\ last.waiting.token = "cdata"
    /\ Nodes(ThisCall) = <<CDATANode(<< >>)>>
    /\ waiting.token = "text"

-----------------------------------------------------------------------------
(* The shape of the pending data.                                          *)

\* s holds no occurrence of pat at or after index from.
HasNone(s, pat, from) == IndexOf(s, pat, from) = -1

-----------------------------------------------------------------------------
(* Text nodes.                                                             *)

IsText(e) == e.type = "text"

\* C33: text nodes are maximal.  The contents of every Text node emitted
\* are not empty and hold no '<', and no two Text events follow one
\* another.  Up to the first error, a Text node is all of the text between
\* two markup constructs, in however many chunks it was written: it begins
\* at the beginning of the text written or behind the '>' of the node
\* before it, and ends before a '<', or at the end of the text written
\* when it is the Text node that _final emits.
C33_MaximalText ==
    /\ \A i \in 1 .. Len(log) :
           IsText(log[i]) =>
               /\ log[i].contents # << >>
               /\ \A j \in 1 .. Len(log[i].contents) : log[i].contents[j] # "<"
               /\ i < Len(log) => ~IsText(log[i + 1])
    /\ LET nodes == Nodes(BeforeError(log))
       IN  \A i \in 1 .. Len(nodes) :
               IsText(nodes[i]) =>
                   LET from == StartOf(nodes, i)
                       to   == from + Len(nodes[i].contents)
                   IN  /\ Slice(Fed, from, to) = nodes[i].contents
                       /\ from = 0 \/ At(Fed, from - 1) = ">"
                       /\ \/ At(Fed, to) = "<"
                          \/ /\ to = Len(Fed)
                             /\ phase = "ended"
                             /\ i = Len(nodes)

\* A write that found one character of text pending has emitted a Text
\* node of two characters, and the tag that follows them.
C33_Witness ==
    /\ last.op = "write"
    /\ FirstError(log) = 0
    /\ last.waiting = [token |-> "text", data |-> <<"t">>]
    /\ Len(ThisCall) = 2
    /\ ThisCall[1] = TextNode(<<"t", "t">>)
    /\ ThisCall[2].type = "tagOpen"

-----------------------------------------------------------------------------
(* The empty chunk.                                                        *)

\* The parser state a call of _final would find if its own _parseChunk
\* pass, over the empty rest of the decoder, had not taken place.
AsFound ==
    [emitted |-> << >>, tagStack |-> last.tagStack, waiting |-> last.waiting,
     thrown |-> NoError]

\* C34: in a session without an error so far, a write of the empty chunk
\* logs nothing (no event, no error) and leaves the pending token, its
\* kind and its data, and the tag stack as they were; and what _final
\* logs is what it would log for the pending token and the tag stack it
\* found, its _parseChunk pass over the empty chunk changing nothing.
C34_EmptyChunk ==
    /\ (last.op = "write" /\ LastChunk = << >> /\ FirstError(Before) = 0) =>
           /\ ThisCall = << >>
           /\ waiting = last.waiting
           /\ tagStack = last.tagStack
    /\ (last.op = "final" /\ FirstError(Before) = 0) =>
           /\ ThisCall = FinalTail(variant, AsFound)
           /\ waiting = last.waiting
           /\ tagStack = last.tagStack

\* The empty chunk has been written to a parser with an open tag and an
\* unfinished construct pending.
C34_Witness ==
    /\ last.op = "write"
    /\ LastChunk = << >>
    /\ FirstError(log) = 0
    /\ last.waiting.token \in {"comment", "cdata", "processingInstruction"}
    /\ last.tagStack # << >>

-----------------------------------------------------------------------------
(* The write that emits a node.                                            *)

\* The place in the text written of the character that completes the i-th
\* node of nodes: the '>' that ends a tag, a comment, a CDATA section or a
\* processing instruction, and the '<' that follows a Text node.
CompletedAt(nodes, i) ==
    LET end == StartOf(nodes, i) + SourceLength(nodes[i])
    IN  IF nodes[i].type = "text" THEN end ELSE end - 1

\* C35: no completed node is held back.  In a session without an earlier
\* error, the character that completes a node a write emits is a
\* character of the chunk of that write, not of an earlier one; and _final
\* emits no node but the Text node of the pending text, which ends where
\* the text written ends.
C35_NotHeldBack ==
    FirstError(Before) = 0 =>
        LET nodes == Nodes(BeforeError(log))
            new   == (Len(Nodes(Before)) + 1) .. Len(nodes)
        IN  /\ last.op = "write" =>
                   \A i \in new :
                       /\ CompletedAt(nodes, i) >= last.start
                       /\ CompletedAt(nodes, i) < pos
            /\ last.op = "final" =>
                   \A i \in new :
                       /\ nodes[i] = TextNode(last.waiting.data)
                       /\ last.waiting.token = "text"
                       /\ i = Len(nodes)
                       /\ StartOf(nodes, i) + SourceLength(nodes[i]) = pos

\* A write of the '<' that follows pending text has emitted the Text node
\* and left the '<' pending.
C35_Witness ==
    /\ last.op = "write"
    /\ FirstError(log) = 0
    /\ last.waiting = [token |-> "text", data |-> <<"t">>]
    /\ LastChunk = <<"<">>
    /\ ThisCall = <<TextNode(<<"t">>)>>
    /\ waiting.token = "tagOpen"

-----------------------------------------------------------------------------
(* The errors of _final.                                                   *)

\* The message _final reports for an unfinished construct of a kind.
UnclosedMessage(token) ==
    CASE token = "cdata" -> "Unclosed CDATA section"
      [] token = "comment" -> "Unclosed comment"
      [] token = "processingInstruction" -> "Unclosed processing instruction"
      [] token \in {"tagOpen", "tagClose"} -> "Unclosed tag"
      [] OTHER -> ""

\* C36: _final reports at most one error.  When it finds an unfinished
\* CDATA section, comment, processing instruction or tag pending and tags
\* open, it reports the pending construct alone and emits nothing; when it
\* finds text pending and tags open, it emits the Text node first and then
\* reports 'Unclosed tags' with the names of the open tags.
C36_OneFinalError ==
    last.op = "final" =>
        /\ Len(Errors(ThisCall)) <= 1
        /\ (/\ UnclosedMessage(last.waiting.token) # ""
            /\ last.tagStack # << >>) =>
               /\ Errors(ThisCall) =
                      <<Callback("_final",
                            Error(UnclosedMessage(last.waiting.token), << >>))>>
               /\ Nodes(ThisCall) = << >>
        /\ (last.waiting.token = "text" /\ last.tagStack # << >>) =>
               /\ Len(ThisCall) >= 2
               /\ ThisCall[1] = TextNode(last.waiting.data)
               /\ ThisCall[2] =
                      Callback("_final",
                          Error("Unclosed tags: ", Join(last.tagStack)))
               /\ Len(Errors(ThisCall)) = 1
               /\ Len(Nodes(ThisCall)) = 1

\* The stream has been ended with a tag open and a comment unfinished, and
\* the comment alone has been reported.
C36_Witness ==
    /\ last.op = "final"
    /\ last.waiting.token = "comment"
    /\ last.tagStack = <<<<"a">>>>
    /\ Errors(ThisCall) = <<Callback("_final", Error("Unclosed comment", << >>))>>

-----------------------------------------------------------------------------
(* Processing instructions and tags in chunks.                             *)

\* The log of a session that writes text in one chunk, and ends the stream
\* if ended says so.
InOneChunk(text, ended) ==
    LET w == ParseChunk(text, Null, << >>)
    IN  IF ended THEN WholeRun(variant, text)
        ELSE w.emitted \o WriteTail(variant, w)

\* C37: a text of processing instructions and opening, self-closing and
\* closing tags gives the same events and the same error, and before any
\* error the same tag stack and the same pending token, whether it is
\* written in one chunk or in chunks that end anywhere: between '<' and
\* the '?' or '/' after it, inside '?>', or just before a '>'.
C37_InstructionAndTagChunking ==
    LET w == ParseChunk(Fed, Null, << >>)
    IN  /\ Nodes(BeforeError(log)) =
               Nodes(BeforeError(InOneChunk(Fed, phase = "ended")))
        /\ Errors(log) = << >> <=>
               Errors(InOneChunk(Fed, phase = "ended")) = << >>
        /\ Errors(log) # << >> =>
               Errors(log)[1].error =
                   Errors(InOneChunk(Fed, phase = "ended"))[1].error
        /\ Errors(log) = << >> =>
               /\ tagStack = w.tagStack
               /\ Unwait(waiting) = Unwait(w.waiting)
               /\ waiting.token = w.waiting.token

\* A write of the '>' of a processing instruction whose '?' was the last
\* character of the pending data has emitted the instruction.
C37_Witness ==
    /\ last.op = "write"
    /\ FirstError(log) = 0
    /\ last.waiting =
           [token |-> "processingInstruction", data |-> <<"<", "?", "p", "?">>]
    /\ At(LastChunk, 0) = ">"
    /\ Len(ThisCall) >= 1
    /\ ThisCall[1] = ProcessingInstructionNode(<<"p">>)

====
